---- MODULE Spec2Model ----
(***************************************************************************)
(* The structured filter-expression engine of the CRM backend:             *)
(* parseFilter / applyFiltersToQuery (src/utils/filterParser.ts) and       *)
(* parseAdvancedFilter / applyAdvancedFiltersToQuery                       *)
(* (src/utils/advancedFilterParser.ts).                                    *)
(*                                                                         *)
(* A JavaScript string is a sequence of one-character strings, so that the *)
(* regular expressions of the source are computed character by character.  *)
(***************************************************************************)
EXTENDS Integers, Sequences, FiniteSets, TLC

VARIABLES
  condTexts,               \* the condition texts the request's filter is made of
  seps,                    \* the separator texts between them
  filterString,            \* parseFilter's argument filterString
  entity,                  \* parseFilter's argument entity ("undefined" when omitted)
  pc,                      \* position of the request in parseFilter / applyFiltersToQuery
  tokens,                  \* const tokens = parseConditions(filterString)
  idx,                     \* position of the for..of loop over tokens
  currentLogicalOperator,  \* let currentLogicalOperator
  conditions,              \* const conditions: FilterCondition[]
  hasRelationshipFilter,   \* let hasRelationshipFilter
  relationshipFields,      \* const relationshipFields = new Set<string>()
  result,                  \* the ParsedFilter parseFilter returned, or NoResult
  error,                   \* the Error that was thrown, or NoError
  query,                   \* the builder handle: the calls recorded on it, in order
  responses,               \* the responses sent on res, in order
  executed,                \* the database query was awaited
  throwsAt,                \* the primitive call at which the builder throws (0: never)
  rawFilter,               \* queryParams.filter as the controller received it
  decodePasses,            \* the decodeURIComponent calls made on it, in order
  other                    \* a second request in flight, with its own locals

vars == << condTexts, seps, filterString, entity, pc, tokens, idx,
           currentLogicalOperator, conditions, hasRelationshipFilter,
           relationshipFields, result, error, query, responses, executed,
           throwsAt, rawFilter, decodePasses, other >>

(***************************************************************************)
(* Characters and the string primitives of JavaScript that the source uses *)
(***************************************************************************)
LowerLetters == <<"a","b","c","d","e","f","g","h","i","j","k","l","m","n","o","p","q","r","s","t","u","v","w","x","y","z">>
UpperLetters == <<"A","B","C","D","E","F","G","H","I","J","K","L","M","N","O","P","Q","R","S","T","U","V","W","X","Y","Z">>
Digits == <<"0","1","2","3","4","5","6","7","8","9">>

Range(s) == { s[i] : i \in 1..Len(s) }

\* F applied to the value of x, with x evaluated once (const v = x; F(v))
Bind(x, F(_)) == CHOOSE r \in { F(v) : v \in { x } } : TRUE

\* the character class \w
WordChars == Range(LowerLetters) \cup Range(UpperLetters) \cup Range(Digits) \cup {"_"}
IsWordChar(c) == c \in WordChars

\* the character class \s (the members that occur in a query string)
SpaceChars == {" ", "\t", "\n", "\r"}
IsSpace(c) == c \in SpaceChars

\* the characters '.' of a regular expression does not match
LineTerminators == {"\n", "\r"}

QuoteChars == {"'", "\""}

ToUpperMap == [ c \in Range(LowerLetters) |->
                  UpperLetters[CHOOSE i \in 1..26 : LowerLetters[i] = c] ]

\* String.prototype.toUpperCase, one character
UpperChar(c) == IF c \in DOMAIN ToUpperMap THEN ToUpperMap[c] ELSE c

\* String.prototype.toUpperCase
toUpperCase(s) == [ i \in 1..Len(s) |-> UpperChar(s[i]) ]

\* str.substring(i) with the model's 1-based positions
SubstringFrom(s, i) == SubSeq(s, i, Len(s))

\* the length of the longest run of \s characters of s that starts at position i
RECURSIVE SpaceRun(_, _)
SpaceRun(s, i) ==
  IF i > Len(s) \/ ~IsSpace(s[i]) THEN 0 ELSE 1 + SpaceRun(s, i + 1)

\* the length of the longest run of \s characters of s that ends at position i
RECURSIVE SpaceRunBack(_, _)
SpaceRunBack(s, i) ==
  IF i < 1 \/ ~IsSpace(s[i]) THEN 0 ELSE 1 + SpaceRunBack(s, i - 1)

\* String.prototype.trim
trimmed(s) ==
  LET lead == SpaceRun(s, 1)
  IN  IF lead = Len(s) THEN << >>
      ELSE SubSeq(s, lead + 1, Len(s) - SpaceRunBack(s, Len(s)))

trim(s) == Bind(s, LAMBDA v : trimmed(v))

\* String.prototype.includes
includes(s, pat) ==
  \E i \in 1..(Len(s) - Len(pat) + 1) : SubSeq(s, i, i + Len(pat) - 1) = pat

\* String.prototype.endsWith
endsWith(s, pat) ==
  Len(s) >= Len(pat) /\ SubSeq(s, Len(s) - Len(pat) + 1, Len(s)) = pat

\* pat occurs in s at position i, letter case ignored (the i flag); pat is upper case
MatchesAtIgnoreCase(s, i, pat) ==
  /\ i >= 1
  /\ i + Len(pat) - 1 <= Len(s)
  /\ toUpperCase(SubSeq(s, i, i + Len(pat) - 1)) = pat

\* pat occurs in s at position i
MatchesAt(s, i, pat) ==
  /\ i >= 1
  /\ i + Len(pat) - 1 <= Len(s)
  /\ SubSeq(s, i, i + Len(pat) - 1) = pat

\* Array.prototype.join for an array of strings
RECURSIVE join(_, _)
join(parts, sep) ==
  IF parts = << >> THEN << >>
  ELSE IF Len(parts) = 1 THEN parts[1]
  ELSE parts[1] \o sep \o join(Tail(parts), sep)

\* String.prototype.split on a one-character separator
RECURSIVE splitFrom(_, _, _, _)
splitFrom(s, sep, i, current) ==
  IF i > Len(s) THEN << current >>
  ELSE IF s[i] = sep THEN << current >> \o splitFrom(s, sep, i + 1, << >>)
  ELSE splitFrom(s, sep, i + 1, Append(current, s[i]))

split(s, sep) == Bind(s, LAMBDA v : splitFrom(v, sep, 1, << >>))

\* s.replace(/X/g, '') for a literal X: every match, left to right, not overlapping
RECURSIVE removeAllFrom(_, _, _)
removeAllFrom(s, pat, i) ==
  IF i > Len(s) THEN << >>
  ELSE IF MatchesAt(s, i, pat) THEN removeAllFrom(s, pat, i + Len(pat))
  ELSE << s[i] >> \o removeAllFrom(s, pat, i + 1)

removeAll(s, pat) == Bind(s, LAMBDA v : removeAllFrom(v, pat, 1))

\* s.replace(/[...]/g, '') for a character class
removeChars(s, class) == SelectSeq(s, LAMBDA c : c \notin class)

\* \b holds between positions i-1 and i of s
WordBoundary(s, i) ==
  (i >= 2 /\ i - 1 <= Len(s) /\ IsWordChar(s[i - 1])) #
  (i >= 1 /\ i <= Len(s) /\ IsWordChar(s[i]))

\* s.replace(/\bWORD\b/gi, '')
RECURSIVE removeWordFrom(_, _, _)
removeWordFrom(s, word, i) ==
  IF i > Len(s) THEN << >>
  ELSE IF /\ MatchesAtIgnoreCase(s, i, word)
          /\ WordBoundary(s, i)
          /\ WordBoundary(s, i + Len(word))
       THEN removeWordFrom(s, word, i + Len(word))
  ELSE << s[i] >> \o removeWordFrom(s, word, i + 1)

removeWord(s, word) == Bind(s, LAMBDA v : removeWordFrom(v, word, 1))

\* value.replace(/^['"]|['"]$/g, ''): one quote off the start, one off the end
stripped(s) ==
  LET a == IF Len(s) >= 1 /\ s[1] \in QuoteChars THEN 2 ELSE 1
      b == IF Len(s) >= a /\ s[Len(s)] \in QuoteChars THEN Len(s) - 1 ELSE Len(s)
  IN  SubSeq(s, a, b)

stripQuotes(s) == Bind(s, LAMBDA v : stripped(v))

(***************************************************************************)
(* The registries: ENTITY_FIELDS, ALLOWED_OPERATORS, LOGICAL_OPERATORS and  *)
(* the enums of src/types/enums.ts                                          *)
(***************************************************************************)
NoEntity == "undefined"

Fields_account ==
  << <<<<"i","d">>, <<"i","d">>>>,
     <<<<"n","a","m","e">>, <<"n","a","m","e">>>>,
     <<<<"s","e","g","m","e","n","t">>, <<"s","e","g","m","e","n","t">>>>,
     <<<<"s","t","a","t","u","s">>, <<"s","t","a","t","u","s">>>>,
     <<<<"t","y","p","e">>, <<"t","y","p","e">>>>,
     <<<<"p","i","p","e","l","i","n","e">>, <<"p","i","p","e","l","i","n","e">>>>,
     <<<<"e","m","a","i","l">>, <<"e","m","a","i","l">>>>,
     <<<<"p","h","o","n","e">>, <<"p","h","o","n","e">>>>,
     <<<<"c","n","p","j">>, <<"c","n","p","j">>>>,
     <<<<"i","n","s","t","a","g","r","a","m">>, <<"i","n","s","t","a","g","r","a","m">>>>,
     <<<<"l","i","n","k","e","d","i","n">>, <<"l","i","n","k","e","d","i","n">>>>,
     <<<<"w","h","a","t","s","a","p","p">>, <<"w","h","a","t","s","a","p","p">>>>,
     <<<<"c","r","e","a","t","e","d","_","a","t">>, <<"c","r","e","a","t","e","d","_","a","t">>>>,
     <<<<"l","a","s","t","_","i","n","t","e","r","a","c","t","i","o","n">>, <<"l","a","s","t","_","i","n","t","e","r","a","c","t","i","o","n">>>>,
     <<<<"r","e","s","p","o","n","s","i","b","l","e","_","i","d">>, <<"r","e","s","p","o","n","s","i","b","l","e","_","i","d">>>>,
     <<<<"r","e","s","p","o","n","s","i","b","l","e",".","i","d">>, <<"u","s","e","r","s","!","r","e","s","p","o","n","s","i","b","l","e","_","i","d",".","i","d">>>>,
     <<<<"r","e","s","p","o","n","s","i","b","l","e",".","n","a","m","e">>, <<"u","s","e","r","s","!","r","e","s","p","o","n","s","i","b","l","e","_","i","d",".","n","a","m","e">>>>,
     <<<<"r","e","s","p","o","n","s","i","b","l","e",".","e","m","a","i","l">>, <<"u","s","e","r","s","!","r","e","s","p","o","n","s","i","b","l","e","_","i","d",".","e","m","a","i","l">>>>,
     <<<<"r","e","s","p","o","n","s","i","b","l","e",".","r","o","l","e">>, <<"u","s","e","r","s","!","r","e","s","p","o","n","s","i","b","l","e","_","i","d",".","r","o","l","e">>>> >>

Fields_business ==
  << <<<<"i","d">>, <<"i","d">>>>,
     <<<<"t","i","t","l","e">>, <<"t","i","t","l","e">>>>,
     <<<<"a","c","c","o","u","n","t","_","i","d">>, <<"a","c","c","o","u","n","t","_","i","d">>>>,
     <<<<"v","a","l","u","e">>, <<"v","a","l","u","e">>>>,
     <<<<"c","u","r","r","e","n","c","y">>, <<"c","u","r","r","e","n","c","y">>>>,
     <<<<"s","t","a","g","e">>, <<"s","t","a","g","e">>>>,
     <<<<"p","r","o","b","a","b","i","l","i","t","y">>, <<"p","r","o","b","a","b","i","l","i","t","y">>>>,
     <<<<"o","w","n","e","r","_","i","d">>, <<"o","w","n","e","r","_","i","d">>>>,
     <<<<"c","l","o","s","i","n","g","_","d","a","t","e">>, <<"c","l","o","s","i","n","g","_","d","a","t","e">>>>,
     <<<<"c","r","e","a","t","e","d","_","a","t">>, <<"c","r","e","a","t","e","d","_","a","t">>>>,
     <<<<"a","c","c","o","u","n","t",".","i","d">>, <<"a","c","c","o","u","n","t","!","a","c","c","o","u","n","t","_","i","d",".","i","d">>>>,
     <<<<"a","c","c","o","u","n","t",".","n","a","m","e">>, <<"a","c","c","o","u","n","t","!","a","c","c","o","u","n","t","_","i","d",".","n","a","m","e">>>>,
     <<<<"a","c","c","o","u","n","t",".","s","e","g","m","e","n","t">>, <<"a","c","c","o","u","n","t","!","a","c","c","o","u","n","t","_","i","d",".","s","e","g","m","e","n","t">>>>,
     <<<<"a","c","c","o","u","n","t",".","s","t","a","t","u","s">>, <<"a","c","c","o","u","n","t","!","a","c","c","o","u","n","t","_","i","d",".","s","t","a","t","u","s">>>>,
     <<<<"a","c","c","o","u","n","t",".","t","y","p","e">>, <<"a","c","c","o","u","n","t","!","a","c","c","o","u","n","t","_","i","d",".","t","y","p","e">>>>,
     <<<<"o","w","n","e","r",".","i","d">>, <<"u","s","e","r","s","!","o","w","n","e","r","_","i","d",".","i","d">>>>,
     <<<<"o","w","n","e","r",".","n","a","m","e">>, <<"u","s","e","r","s","!","o","w","n","e","r","_","i","d",".","n","a","m","e">>>>,
     <<<<"o","w","n","e","r",".","e","m","a","i","l">>, <<"u","s","e","r","s","!","o","w","n","e","r","_","i","d",".","e","m","a","i","l">>>>,
     <<<<"o","w","n","e","r",".","r","o","l","e">>, <<"u","s","e","r","s","!","o","w","n","e","r","_","i","d",".","r","o","l","e">>>> >>

Fields_users ==
  << <<<<"i","d">>, <<"i","d">>>>,
     <<<<"n","a","m","e">>, <<"n","a","m","e">>>>,
     <<<<"r","o","l","e">>, <<"r","o","l","e">>>>,
     <<<<"m","a","n","a","g","e","r","_","i","d">>, <<"m","a","n","a","g","e","r","_","i","d">>>>,
     <<<<"e","m","a","i","l">>, <<"e","m","a","i","l">>>>,
     <<<<"c","r","e","a","t","e","d","_","a","t">>, <<"c","r","e","a","t","e","d","_","a","t">>>>,
     <<<<"m","a","n","a","g","e","r",".","i","d">>, <<"u","s","e","r","s","!","m","a","n","a","g","e","r","_","i","d",".","i","d">>>>,
     <<<<"m","a","n","a","g","e","r",".","n","a","m","e">>, <<"u","s","e","r","s","!","m","a","n","a","g","e","r","_","i","d",".","n","a","m","e">>>>,
     <<<<"m","a","n","a","g","e","r",".","e","m","a","i","l">>, <<"u","s","e","r","s","!","m","a","n","a","g","e","r","_","i","d",".","e","m","a","i","l">>>>,
     <<<<"m","a","n","a","g","e","r",".","r","o","l","e">>, <<"u","s","e","r","s","!","m","a","n","a","g","e","r","_","i","d",".","r","o","l","e">>>> >>

Fields_item ==
  << <<<<"i","d">>, <<"i","d">>>>,
     <<<<"n","a","m","e">>, <<"n","a","m","e">>>>,
     <<<<"t","y","p","e">>, <<"t","y","p","e">>>>,
     <<<<"p","r","i","c","e">>, <<"p","r","i","c","e">>>>,
     <<<<"s","k","u","_","c","o","d","e">>, <<"s","k","u","_","c","o","d","e">>>>,
     <<<<"d","e","s","c","r","i","p","t","i","o","n">>, <<"d","e","s","c","r","i","p","t","i","o","n">>>>,
     <<<<"c","r","e","a","t","e","d","_","a","t">>, <<"c","r","e","a","t","e","d","_","a","t">>>> >>

Fields_account_timeline ==
  << <<<<"i","d">>, <<"i","d">>>>,
     <<<<"a","c","c","o","u","n","t","_","i","d">>, <<"a","c","c","o","u","n","t","_","i","d">>>>,
     <<<<"t","y","p","e">>, <<"t","y","p","e">>>>,
     <<<<"t","i","t","l","e">>, <<"t","i","t","l","e">>>>,
     <<<<"d","e","s","c","r","i","p","t","i","o","n">>, <<"d","e","s","c","r","i","p","t","i","o","n">>>>,
     <<<<"d","a","t","e">>, <<"d","a","t","e">>>>,
     <<<<"c","r","e","a","t","e","d","_","b","y">>, <<"c","r","e","a","t","e","d","_","b","y">>>>,
     <<<<"c","r","e","a","t","e","d","_","a","t">>, <<"c","r","e","a","t","e","d","_","a","t">>>>,
     <<<<"a","c","c","o","u","n","t",".","i","d">>, <<"a","c","c","o","u","n","t","!","a","c","c","o","u","n","t","_","i","d",".","i","d">>>>,
     <<<<"a","c","c","o","u","n","t",".","n","a","m","e">>, <<"a","c","c","o","u","n","t","!","a","c","c","o","u","n","t","_","i","d",".","n","a","m","e">>>>,
     <<<<"a","c","c","o","u","n","t",".","s","e","g","m","e","n","t">>, <<"a","c","c","o","u","n","t","!","a","c","c","o","u","n","t","_","i","d",".","s","e","g","m","e","n","t">>>>,
     <<<<"a","c","c","o","u","n","t",".","s","t","a","t","u","s">>, <<"a","c","c","o","u","n","t","!","a","c","c","o","u","n","t","_","i","d",".","s","t","a","t","u","s">>>>,
     <<<<"a","c","c","o","u","n","t",".","t","y","p","e">>, <<"a","c","c","o","u","n","t","!","a","c","c","o","u","n","t","_","i","d",".","t","y","p","e">>>>,
     <<<<"c","r","e","a","t","e","d","B","y",".","i","d">>, <<"u","s","e","r","s","!","c","r","e","a","t","e","d","_","b","y",".","i","d">>>>,
     <<<<"c","r","e","a","t","e","d","B","y",".","n","a","m","e">>, <<"u","s","e","r","s","!","c","r","e","a","t","e","d","_","b","y",".","n","a","m","e">>>>,
     <<<<"c","r","e","a","t","e","d","B","y",".","e","m","a","i","l">>, <<"u","s","e","r","s","!","c","r","e","a","t","e","d","_","b","y",".","e","m","a","i","l">>>>,
     <<<<"c","r","e","a","t","e","d","B","y",".","r","o","l","e">>, <<"u","s","e","r","s","!","c","r","e","a","t","e","d","_","b","y",".","r","o","l","e">>>> >>

\* const ENTITY_FIELDS: entity -> the (key, column) pairs, in declaration order
ENTITY_FIELDS ==
  [ account |-> Fields_account,
    business |-> Fields_business,
    users |-> Fields_users,
    item |-> Fields_item,
    account_timeline |-> Fields_account_timeline ]

RegistryEntities == DOMAIN ENTITY_FIELDS

\* Object.keys(fields)
ObjectKeys(fields) == [ i \in 1..Len(fields) |-> fields[i][1] ]

OwnKeys(fields) == { fields[i][1] : i \in 1..Len(fields) }

\* the property names every object literal inherits from Object.prototype and
\* that match \w+
ObjectPrototypeKeys ==
  { <<"c","o","n","s","t","r","u","c","t","o","r">>, <<"t","o","S","t","r","i","n","g">>, <<"v","a","l","u","e","O","f">>, <<"h","a","s","O","w","n","P","r","o","p","e","r","t","y">>, <<"i","s","P","r","o","t","o","t","y","p","e","O","f">>,
    <<"p","r","o","p","e","r","t","y","I","s","E","n","u","m","e","r","a","b","l","e">>, <<"t","o","L","o","c","a","l","e","S","t","r","i","n","g">>, <<"_","_","p","r","o","t","o","_","_">>, <<"_","_","d","e","f","i","n","e","G","e","t","t","e","r","_","_">>,
    <<"_","_","d","e","f","i","n","e","S","e","t","t","e","r","_","_">>, <<"_","_","l","o","o","k","u","p","G","e","t","t","e","r","_","_">>, <<"_","_","l","o","o","k","u","p","S","e","t","t","e","r","_","_">> }

\* the JavaScript expression  key in fields : own and inherited properties
InObject(key, fields) == key \in OwnKeys(fields) \/ key \in ObjectPrototypeKeys

\* fields[key]: the column of an own key; an inherited member is no string
Lookup(fields, key) ==
  IF key \in OwnKeys(fields)
  THEN fields[CHOOSE i \in 1..Len(fields) : fields[i][1] = key][2]
  ELSE << "Object.prototype." >> \o key

\* entity ? ENTITY_FIELDS[entity] : null   (undefined for a name the table lacks)
HasEntityFields(e) == e \in RegistryEntities

ALLOWED_OPERATORS ==
  << <<"=">>, <<"!","=">>, <<"<",">">>, <<"<">>, <<">">>, <<"<","=">>, <<">","=">>, <<"L","I","K","E">>, <<"I","L","I","K","E">>, <<"I","N">>, <<"N","O","T"," ","I","N">> >>

LOGICAL_OPERATORS == << <<"A","N","D">>, <<"O","R">> >>

UserRoles == { <<"A","D","M","I","N">>, <<"M","A","N","A","G","E","R">>, <<"S","A","L","E","S","_","R","E","P">> }
AccountStatuses == { <<"A","C","T","I","V","E">>, <<"I","N","A","C","T","I","V","E">> }
AccountTypes == { <<"L","e","a","d">>, <<"P","r","o","s","p","e","c","t">>, <<"C","l","i","e","n","t">> }
BusinessStages == { <<"P","r","o","s","p","e","c","t","i","n","g">>, <<"Q","u","a","l","i","f","i","c","a","t","i","o","n">>, <<"P","r","o","p","o","s","a","l">>, <<"N","e","g","o","t","i","a","t","i","o","n">>,
                    <<"C","l","o","s","e","d"," ","W","o","n">>, <<"C","l","o","s","e","d"," ","L","o","s","t">> }
Currencies == { <<"B","R","L">>, <<"U","S","D">>, <<"E","U","R">> }
ItemTypes == { <<"P","R","O","D","U","C","T">>, <<"S","E","R","V","I","C","E">> }
TimelineTypes == { <<"N","O","T","E">>, <<"C","A","L","L">>, <<"E","M","A","I","L">>, <<"M","E","E","T","I","N","G">>, <<"S","Y","S","T","E","M">> }

isValidUserRole(v) == v \in UserRoles

\* a status validation that accepts every value
isValidAccountStatusAny(v) == TRUE

isValidAccountStatus(v) == v \in AccountStatuses
isValidAccountType(v) == v \in AccountTypes
isValidBusinessStage(v) == v \in BusinessStages
isValidCurrency(v) == v \in Currencies
isValidItemType(v) == v \in ItemTypes
isValidTimelineType(v) == v \in TimelineTypes

(***************************************************************************)
(* sanitizeValue                                                           *)
(***************************************************************************)
SqlKeywords ==
  << <<"D","R","O","P">>, <<"D","E","L","E","T","E">>, <<"U","P","D","A","T","E">>, <<"I","N","S","E","R","T">>, <<"A","L","T","E","R">>, <<"C","R","E","A","T","E">>, <<"E","X","E","C">>, <<"U","N","I","O","N">> >>

\* the eight keyword replacements, applied one after the other
RECURSIVE removeKeywords(_, _)
removeKeywords(s, k) ==
  IF k > Len(SqlKeywords) THEN s
  ELSE Bind(removeWord(s, SqlKeywords[k]), LAMBDA v : removeKeywords(v, k + 1))

sanitizeValue(value) ==
  trim(removeKeywords(
         removeAll(removeAll(removeAll(removeChars(value, {"'", ";", "\\"}),
                                       <<"-","-">>), <<"/","*">>), <<"*","/">>), 1))

(***************************************************************************)
(* validateFieldValue                                                      *)
(***************************************************************************)
HexChars == Range(Digits) \cup Range(<<"a","b","c","d","e","f","A","B","C","D","E","F">>)

\* /^[0-9a-f]{8}-[0-9a-f]{4}-[1-5][0-9a-f]{3}-[89ab][0-9a-f]{3}-[0-9a-f]{12}$/i
uuidRegexTest(v) ==
  /\ Len(v) = 36
  /\ \A i \in 1..36 :
       IF i \in {9, 14, 19, 24} THEN v[i] = "-"
       ELSE IF i = 15 THEN v[i] \in Range(<<"1","2","3","4","5">>)
       ELSE IF i = 20 THEN v[i] \in Range(<<"8","9","a","b","A","B">>)
       ELSE v[i] \in HexChars

\* /^[^\s@]+@[^\s@]+\.[^\s@]+$/
emailRegexTest(v) ==
  \E a \in 2..Len(v) :
    /\ v[a] = "@"
    /\ \A i \in 1..Len(v) : ~IsSpace(v[i]) /\ (v[i] = "@" => i = a)
    /\ \E d \in (a + 2)..(Len(v) - 1) : v[d] = "."

IsDigits(s) == Len(s) >= 1 /\ \A i \in 1..Len(s) : s[i] \in Range(Digits)

\* ExponentPart of a numeric string: [eE] [+-]? DecimalDigits
IsExponentPart(s) ==
  /\ Len(s) >= 2
  /\ s[1] \in {"e", "E"}
  /\ IsDigits(SubSeq(s, IF s[2] \in {"+", "-"} THEN 3 ELSE 2, Len(s)))

\* digits [. digits?] | . digits    (the mantissa of StrUnsignedDecimalLiteral)
IsMantissa(s) ==
  \/ IsDigits(s)
  \/ \E d \in 1..Len(s) :
       /\ s[d] = "."
       /\ (d = 1 \/ IsDigits(SubSeq(s, 1, d - 1)))
       /\ (d = Len(s) \/ IsDigits(SubSeq(s, d + 1, Len(s))))
       /\ Len(s) >= 2

\* StrUnsignedDecimalLiteral: Infinity, or a mantissa with an optional exponent
IsUnsignedDecimal(s) ==
  \/ s = <<"I","n","f","i","n","i","t","y">>
  \/ IsMantissa(s)
  \/ \E e \in 2..Len(s) :
       IsMantissa(SubSeq(s, 1, e - 1)) /\ IsExponentPart(SubstringFrom(s, e))

\* the mantissa of an unsigned decimal literal denotes zero
IsZeroDecimal(s) ==
  /\ IsUnsignedDecimal(s)
  /\ s # <<"I","n","f","i","n","i","t","y">>
  /\ LET m == IF \E e \in 1..Len(s) : s[e] \in {"e", "E"}
              THEN SubSeq(s, 1, (CHOOSE e \in 1..Len(s) : s[e] \in {"e", "E"}) - 1)
              ELSE s
     IN  \A i \in 1..Len(m) : m[i] \in {"0", "."}

\* 0x.., 0o.., 0b..  (NonDecimalIntegerLiteral, never signed)
IsNonDecimalInteger(s) ==
  /\ Len(s) >= 3
  /\ s[1] = "0"
  /\ LET body == SubstringFrom(s, 3)
     IN  \/ s[2] \in {"x", "X"} /\ \A i \in 1..Len(body) : body[i] \in HexChars
         \/ s[2] \in {"o", "O"} /\ \A i \in 1..Len(body) : body[i] \in Range(<<"0","1","2","3","4","5","6","7">>)
         \/ s[2] \in {"b", "B"} /\ \A i \in 1..Len(body) : body[i] \in {"0", "1"}

\* !isNaN(Number(value)) && Number(value) >= 0.  Number('') is 0 and Number('-0')
\* is -0, which is >= 0.  (A negative literal whose exponent underflows to -0 is
\* outside the literals modelled.)
isNonNegativeNumber(value) ==
  LET s == trim(value)
  IN  \/ s = << >>
      \/ IsNonDecimalInteger(s)
      \/ IsUnsignedDecimal(s)
      \/ Len(s) >= 2 /\ s[1] = "+" /\ IsUnsignedDecimal(Tail(s))
      \/ Len(s) >= 2 /\ s[1] = "-" /\ IsZeroDecimal(Tail(s))

TwoDigitsIn(s, lo, hi) ==
  /\ Len(s) = 2
  /\ IsDigits(s)
  /\ LET n == 10 * ((CHOOSE i \in 1..10 : Digits[i] = s[1]) - 1)
               + ((CHOOSE i \in 1..10 : Digits[i] = s[2]) - 1)
     IN  lo <= n /\ n <= hi

\* HH:mm or HH:mm:ss, then an optional Z
IsIsoTime(s) ==
  LET t == IF Len(s) >= 1 /\ s[Len(s)] = "Z" THEN SubSeq(s, 1, Len(s) - 1) ELSE s
  IN  /\ Len(t) \in {5, 8}
      /\ TwoDigitsIn(SubSeq(t, 1, 2), 0, 24)
      /\ t[3] = ":"
      /\ TwoDigitsIn(SubSeq(t, 4, 5), 0, 59)
      /\ Len(t) = 8 => (t[6] = ":" /\ TwoDigitsIn(SubSeq(t, 7, 8), 0, 59))

\* !isNaN(Date.parse(value)) for the ECMAScript date-time string format
\* YYYY[-MM[-DD]][THH:mm[:ss][Z]]; any other text is taken as not a date
isParsableDate(value) ==
  /\ Len(value) >= 4
  /\ IsDigits(SubSeq(value, 1, 4))
  /\ \/ Len(value) = 4
     \/ /\ Len(value) >= 7
        /\ value[5] = "-"
        /\ TwoDigitsIn(SubSeq(value, 6, 7), 1, 12)
        /\ \/ Len(value) = 7
           \/ /\ Len(value) >= 10
              /\ value[8] = "-"
              /\ TwoDigitsIn(SubSeq(value, 9, 10), 1, 31)
              /\ \/ Len(value) = 10
                 \/ Len(value) >= 12 /\ value[11] = "T"
                      /\ IsIsoTime(SubstringFrom(value, 12))

\* field.includes('.') ? field.split('.')[1] : field
baseFieldOf(field) == IF includes(field, <<".">>) THEN split(field, ".")[2] ELSE field

validateFieldValue(field, value, e) ==
  LET baseField == baseFieldOf(field)
  IN  IF baseField = <<"i","d">> \/ endsWith(field, <<"_","i","d">>) THEN uuidRegexTest(value)
      ELSE IF baseField = <<"e","m","a","i","l">> THEN emailRegexTest(value)
      ELSE IF baseField = <<"s","t","a","t","u","s">> THEN isValidAccountStatus(value)
      ELSE IF baseField = <<"t","y","p","e">> THEN
             IF e = "account" THEN isValidAccountType(value)
             ELSE IF e = "item" THEN isValidItemType(value)
             ELSE IF e = "account_timeline" THEN isValidTimelineType(value)
             ELSE TRUE
      ELSE IF baseField = <<"r","o","l","e">> THEN isValidUserRole(value)
      ELSE IF baseField = <<"s","t","a","g","e">> THEN isValidBusinessStage(value)
      ELSE IF baseField = <<"c","u","r","r","e","n","c","y">> THEN isValidCurrency(value)
      ELSE IF baseField \in {<<"p","r","i","c","e">>, <<"v","a","l","u","e">>, <<"p","r","o","b","a","b","i","l","i","t","y">>}
           THEN isNonNegativeNumber(value)
      ELSE IF baseField \in {<<"d","a","t","e">>, <<"c","l","o","s","i","n","g","_","d","a","t","e">>, <<"c","r","e","a","t","e","d","_","a","t">>, <<"l","a","s","t","_","i","n","t","e","r","a","c","t","i","o","n">>}
           THEN isParsableDate(value)
      ELSE Len(value) > 0 /\ \A i \in 1..Len(value) : value[i] \notin {"<", ">", "{", "}"}

(***************************************************************************)
(* parseFilter: the condition splitter                                     *)
(***************************************************************************)
\* str.substring(i).match(/^\s+(AND|OR)\s+/i): the match's length and keyword,
\* length 0 when there is none
LogicalMatch(str, i) ==
  LET ws1 == SpaceRun(str, i)
      k   == i + ws1
      kw  == IF MatchesAtIgnoreCase(str, k, <<"A","N","D">>) THEN <<"A","N","D">>
             ELSE IF MatchesAtIgnoreCase(str, k, <<"O","R">>) THEN <<"O","R">>
             ELSE << >>
      ws2 == SpaceRun(str, k + Len(kw))
  IN  IF ws1 >= 1 /\ kw # << >> /\ ws2 >= 1
      THEN [ length |-> ws1 + Len(kw) + ws2, keyword |-> kw ]
      ELSE [ length |-> 0, keyword |-> << >> ]

\* the while loop without the quote tracking: a keyword between quotes ends the
\* current condition like any other
RECURSIVE parseConditionsQuoteBlind(_, _, _, _, _)
parseConditionsQuoteBlind(str, i, current, quoteChar, res) ==
  IF i > Len(str)
  THEN IF trim(current) # << >> THEN Append(res, trim(current)) ELSE res
  ELSE
    LET char == str[i]
        m    == LogicalMatch(str, i)
    IN  IF m.length > 0
        THEN parseConditionsQuoteBlind(str, i + (m.length - 1) + 1, << >>, "",
                                       res \o << trim(current), m.keyword >>)
        ELSE parseConditionsQuoteBlind(str, i + 1, Append(current, char), "", res)

\* the first position from i on that holds a quote or white space, Len(str) + 1
\* when there is none: any other character takes the last branch of the loop
NextMark(str, i) ==
  CHOOSE j \in i..(Len(str) + 1) :
    /\ j <= Len(str) => (str[j] \in QuoteChars \/ IsSpace(str[j]))
    /\ \A k \in i..(j - 1) : ~(str[k] \in QuoteChars \/ IsSpace(str[k]))

\* the while loop of parseConditions; quoteChar = "" stands for inQuotes = false.
\* A run of characters that are neither quotes nor white space is appended to
\* current in one step.
RECURSIVE parseConditionsFrom(_, _, _, _, _)
parseConditionsFrom(str, i, current, quoteChar, res) ==
  IF i > Len(str)
  THEN IF trim(current) # << >> THEN Append(res, trim(current)) ELSE res
  ELSE IF NextMark(str, i) > i
  THEN parseConditionsFrom(str, NextMark(str, i),
                           current \o SubSeq(str, i, NextMark(str, i) - 1),
                           quoteChar, res)
  ELSE
    LET char == str[i]
        m    == LogicalMatch(str, i)
    IN  IF char \in QuoteChars /\ quoteChar = ""
        THEN parseConditionsFrom(str, i + 1, Append(current, char), char, res)
        ELSE IF char = quoteChar /\ quoteChar # ""
        THEN parseConditionsFrom(str, i + 1, Append(current, char), "", res)
        ELSE IF quoteChar = "" /\ m.length > 0
        THEN parseConditionsFrom(str, i + (m.length - 1) + 1, << >>, "",
                                 res \o << trim(current), m.keyword >>)
        ELSE parseConditionsFrom(str, i + 1, Append(current, char), quoteChar, res)

\* the splitter that ends a condition at every keyword, open quote or not
parseConditionsSplittingEverywhere(str) ==
  parseConditionsQuoteBlind(str, 1, << >>, "", << >>)

parseConditions(str) ==
  Bind(str, LAMBDA s : parseConditionsFrom(s, 1, << >>, "", << >>))

(***************************************************************************)
(* parseFilter: one condition                                              *)
(***************************************************************************)
\* the alternation (=|!=|<>|<=|>=|<|>|LIKE|ILIKE|IN|NOT IN), in its order
OperatorAlternatives ==
  << <<"=">>, <<"!","=">>, <<"<",">">>, <<"<","=">>, <<">","=">>, <<"<">>, <<">">>, <<"L","I","K","E">>, <<"I","L","I","K","E">>, <<"I","N">>, <<"N","O","T"," ","I","N">> >>

IsWord(s) == Len(s) >= 1 /\ \A i \in 1..Len(s) : IsWordChar(s[i])

\* \w+(?:\.\w+)?
IsFieldName(s) ==
  \/ IsWord(s)
  \/ \E d \in 2..(Len(s) - 1) :
       s[d] = "." /\ IsWord(SubSeq(s, 1, d - 1)) /\ IsWord(SubSeq(s, d + 1, Len(s)))

\* where (.+)$ can start after the operator that ends at position p - 1: the
\* greedy \s* gives back white space until the rest is non-empty and free of
\* line terminators; 0 when no start works
ValueStart(token, p) ==
  LET ok == { v \in p..(p + SpaceRun(token, p)) :
                /\ v <= Len(token)
                /\ \A j \in v..Len(token) : token[j] \notin LineTerminators }
  IN  IF ok = {} THEN 0 ELSE CHOOSE v \in ok : \A w \in ok : v >= w

\* token.match(/^(\w+(?:\.\w+)?)\s*(=|!=|<>|<=|>=|<|>|LIKE|ILIKE|IN|NOT IN)\s*(.+)$/i)
\* The backtracking order of the expression is: the longest field first, and for
\* each field the first alternative of the operator that lets the rest match.
conditionMatch(token) ==
  LET ends  == { n \in 1..Len(token) : IsFieldName(SubSeq(token, 1, n)) }
      cands == { c \in ends \X (1..Len(OperatorAlternatives)) :
                   LET p == c[1] + 1 + SpaceRun(token, c[1] + 1)
                       op == OperatorAlternatives[c[2]]
                   IN  /\ MatchesAtIgnoreCase(token, p, op)
                       /\ ValueStart(token, p + Len(op)) > 0 }
  IN  IF cands = {} THEN [ matched |-> FALSE, fieldName |-> << >>,
                           operator |-> << >>, valueStr |-> << >> ]
      ELSE
        LET best == CHOOSE c \in cands :
                      \A d \in cands : c[1] > d[1] \/ (c[1] = d[1] /\ c[2] <= d[2])
            p  == best[1] + 1 + SpaceRun(token, best[1] + 1)
            op == OperatorAlternatives[best[2]]
        IN  [ matched |-> TRUE,
              fieldName |-> SubSeq(token, 1, best[1]),
              operator |-> SubSeq(token, p, p + Len(op) - 1),
              valueStr |-> SubstringFrom(token, ValueStart(token, p + Len(op))) ]

NoError == [ kind |-> "none", subject |-> << >>, detail |-> << >>,
             entity |-> NoEntity, allowed |-> << >> ]

\* throw new Error(`Invalid filter condition: ${token}`)
InvalidConditionError(token) ==
  [ kind |-> "Invalid filter condition", subject |-> token, detail |-> << >>,
    entity |-> NoEntity, allowed |-> << >> ]

\* throw new Error(`Invalid field: ${fieldName} for entity ${entity}. Allowed fields: ...`)
InvalidFieldError(fieldName, e) ==
  [ kind |-> "Invalid field", subject |-> fieldName, detail |-> << >>,
    entity |-> e, allowed |-> ObjectKeys(ENTITY_FIELDS[e]) ]

\* throw new Error(`Invalid field: ${fieldName}. Field not found in any entity.`)
UnknownFieldError(fieldName) ==
  [ kind |-> "Invalid field", subject |-> fieldName,
    detail |-> <<"F","i","e","l","d"," ","n","o","t"," ","f","o","u","n","d"," ","i","n"," ","a","n","y"," ","e","n","t","i","t","y">>, entity |-> NoEntity, allowed |-> << >> ]

\* throw new Error(`Invalid operator: ${operator}. Allowed operators: ...`)
InvalidOperatorError(operator) ==
  [ kind |-> "Invalid operator", subject |-> operator, detail |-> << >>,
    entity |-> NoEntity, allowed |-> ALLOWED_OPERATORS ]

\* throw new Error(`IN operator requires parentheses: ${valueStr}`)
ParenthesesError(valueStr) ==
  [ kind |-> "IN operator requires parentheses", subject |-> valueStr,
    detail |-> << >>, entity |-> NoEntity, allowed |-> << >> ]

\* throw new Error(`Invalid value for field ${fieldName}: ${sanitized}`)
InvalidValueError(fieldName, sanitized) ==
  [ kind |-> "Invalid value for field", subject |-> fieldName, detail |-> sanitized,
    entity |-> NoEntity, allowed |-> << >> ]

\* a string value, and an array of strings
JsString(s) == [ isArray |-> FALSE, text |-> s, items |-> << >> ]
JsArray(xs) == [ isArray |-> TRUE, text |-> << >>, items |-> xs ]

\* let currentLogicalOperator: undefined
Undefined == << >>

\* valueStr.match(/^\((.+)\)$/): the text between the parentheses, matched or not
inMatch(valueStr) ==
  IF /\ Len(valueStr) >= 3
     /\ valueStr[1] = "("
     /\ valueStr[Len(valueStr)] = ")"
     /\ \A j \in 1..Len(valueStr) : valueStr[j] \notin LineTerminators
  THEN [ matched |-> TRUE, inner |-> SubSeq(valueStr, 2, Len(valueStr) - 1) ]
  ELSE [ matched |-> FALSE, inner |-> << >> ]

\* the text between the parentheses taken as one element
listElementsUnsplit(inner) == << sanitizeValue(stripQuotes(trim(inner))) >>

\* the elements of an IN list: split(','), trim, quotes off, sanitizeValue
listElements(inner) ==
  LET raw == split(inner, ",")
  IN  [ i \in 1..Len(raw) |-> sanitizeValue(stripQuotes(trim(raw[i]))) ]

\* fieldName is accepted for the entity scope (the two field checks of parseFilter)
fieldAccepted(fieldName, e) ==
  IF HasEntityFields(e)
  THEN InObject(fieldName, ENTITY_FIELDS[e])
  ELSE \E r \in RegistryEntities : InObject(fieldName, ENTITY_FIELDS[r])

\* ALLOWED_OPERATORS.some(op => op.toLowerCase() === operator.toLowerCase())
operatorAllowed(operator) ==
  \E k \in 1..Len(ALLOWED_OPERATORS) : ALLOWED_OPERATORS[k] = toUpperCase(operator)

\* what the loop body makes of a token: the error thrown, or the condition pushed
Thrown(err) == [ ok |-> FALSE, error |-> err, condition |-> << >> ]

\* the condition pushed with the operator as the text wrote it
PushedAsWritten(fieldName, operator, value, logicalOperator) ==
  [ ok |-> TRUE, error |-> NoError,
    condition |-> [ field |-> fieldName, operator |-> operator,
                    value |-> value, logicalOperator |-> logicalOperator ] ]

\* conditions.push({ field, operator: operator.toUpperCase(), value, logicalOperator })
Pushed(fieldName, operator, value, logicalOperator) ==
  [ ok |-> TRUE, error |-> NoError,
    condition |-> [ field |-> fieldName, operator |-> toUpperCase(operator),
                    value |-> value, logicalOperator |-> logicalOperator ] ]

\* the IN / NOT IN branch once the list is split: the first invalid element throws
listValue(m, elems, e, logicalOperator) ==
  LET bad == { i \in 1..Len(elems) : ~validateFieldValue(m.fieldName, elems[i], e) }
  IN  IF bad # {}
      THEN Thrown(InvalidValueError(m.fieldName,
                    elems[CHOOSE i \in bad : \A j \in bad : i <= j]))
      ELSE Pushed(m.fieldName, m.operator, JsArray(elems), logicalOperator)

\* the single value branch once the value is sanitized
singleValue(m, sanitized, e, logicalOperator) ==
  IF ~validateFieldValue(m.fieldName, sanitized, e)
  THEN Thrown(InvalidValueError(m.fieldName, sanitized))
  ELSE Pushed(m.fieldName, m.operator, JsString(sanitized), logicalOperator)

\* the loop body after the match m of the condition expression
matchedCondition(token, m, e, logicalOperator) ==
  IF ~m.matched THEN Thrown(InvalidConditionError(token))
  ELSE IF ~fieldAccepted(m.fieldName, e)
    THEN Thrown(IF HasEntityFields(e) THEN InvalidFieldError(m.fieldName, e)
                ELSE UnknownFieldError(m.fieldName))
  ELSE IF ~operatorAllowed(m.operator) THEN Thrown(InvalidOperatorError(m.operator))
  ELSE IF includes(toUpperCase(m.operator), <<"I","N">>)
    THEN IF ~inMatch(m.valueStr).matched THEN Thrown(ParenthesesError(m.valueStr))
         ELSE Bind(listElements(inMatch(m.valueStr).inner),
                   LAMBDA elems : listValue(m, elems, e, logicalOperator))
  ELSE Bind(sanitizeValue(stripQuotes(m.valueStr)),
            LAMBDA sanitized : singleValue(m, sanitized, e, logicalOperator))

\* The body of the for loop for a token that is no logical operator: either the
\* error it throws or the condition it pushes.
parseCondition(token, e, logicalOperator) ==
  Bind(conditionMatch(token), LAMBDA m : matchedCondition(token, m, e, logicalOperator))

(***************************************************************************)
(* parseFilter as a whole                                                  *)
(***************************************************************************)
NoResult == [ returned |-> FALSE, conditions |-> << >>,
              hasRelationshipFilter |-> FALSE, relationshipFields |-> {} ]

ParsedFilter(conds, hasRel, relFields) ==
  [ returned |-> TRUE, conditions |-> conds,
    hasRelationshipFilter |-> hasRel, relationshipFields |-> relFields ]

\* LOGICAL_OPERATORS.some(op => op === token)
IsLogicalOperator(token) ==
  \E j \in 1..Len(LOGICAL_OPERATORS) : LOGICAL_OPERATORS[j] = token

\* the text after the '.' of a qualified field
relationshipNameAfterDot(fieldName) == split(fieldName, ".")[2]

\* const relationshipName = fieldName.split('.')[0]
relationshipName(fieldName) == split(fieldName, ".")[1]

\* the for loop over the tokens from position k on: the error thrown or the
\* ParsedFilter returned
RECURSIVE parseTokensFrom(_, _, _, _, _)
parseTokensFrom(toks, k, logicalOperator, acc, e) ==
  IF k > Len(toks) THEN [ error |-> NoError, parsed |-> acc ]
  ELSE IF IsLogicalOperator(toks[k]) THEN parseTokensFrom(toks, k + 1, toks[k], acc, e)
  ELSE
    Bind(parseCondition(toks[k], e, logicalOperator), LAMBDA r :
      IF ~r.ok THEN [ error |-> r.error, parsed |-> NoResult ]
      ELSE parseTokensFrom(toks, k + 1, Undefined,
             ParsedFilter(Append(acc.conditions, r.condition),
                          acc.hasRelationshipFilter \/ includes(r.condition.field, <<".">>),
                          IF includes(r.condition.field, <<".">>)
                          THEN acc.relationshipFields
                                 \cup { relationshipName(r.condition.field) }
                          ELSE acc.relationshipFields),
             e))

\* parseFilter(filterString, entity)
parseFilter(str, e) ==
  IF trim(str) = << >>
  THEN [ error |-> NoError, parsed |-> ParsedFilter(<< >>, FALSE, {}) ]
  ELSE Bind(parseConditions(str), LAMBDA toks :
         parseTokensFrom(toks, 1, Undefined, ParsedFilter(<< >>, FALSE, {}), e))

(***************************************************************************)
(* The query builder: a handle is the sequence of calls recorded on it     *)
(***************************************************************************)
BuilderCall(fn, column, arg, value) ==
  [ fn |-> fn, column |-> column, arg |-> arg, value |-> value ]

\* the switch on the operator, shared by the three loops that apply a condition:
\* the handle after the call the operator selects (unchanged when it selects none)
applyOperator(q, operator, column, value) ==
  IF operator = <<"=">> THEN Append(q, BuilderCall("eq", column, "", value))
  ELSE IF operator \in {<<"!","=">>, <<"<",">">>} THEN Append(q, BuilderCall("neq", column, "", value))
  ELSE IF operator = <<"<">> THEN Append(q, BuilderCall("lt", column, "", value))
  ELSE IF operator = <<">">> THEN Append(q, BuilderCall("gt", column, "", value))
  ELSE IF operator = <<"<","=">> THEN Append(q, BuilderCall("lte", column, "", value))
  ELSE IF operator = <<">","=">> THEN Append(q, BuilderCall("gte", column, "", value))
  ELSE IF operator = <<"L","I","K","E">> THEN Append(q, BuilderCall("like", column, "", value))
  ELSE IF operator = <<"I","L","I","K","E">> THEN Append(q, BuilderCall("ilike", column, "", value))
  ELSE IF operator = <<"I","N">>
       THEN IF value.isArray THEN Append(q, BuilderCall("in", column, "", value)) ELSE q
  ELSE IF operator = <<"N","O","T"," ","I","N">>
       THEN IF value.isArray THEN Append(q, BuilderCall("not", column, "in", value)) ELSE q
  ELSE q

(***************************************************************************)
(* parseAdvancedFilter and applyAdvancedFiltersToQuery                     *)
(***************************************************************************)
\* parseAdvancedFilter's loop body after the match m: no field check, no
\* sanitizing, no validation
matchedAdvancedCondition(token, m, logicalOperator) ==
  LET isList == includes(toUpperCase(m.operator), <<"I","N">>)
      im == inMatch(m.valueStr)
      raw == split(im.inner, ",")
      parts == split(m.fieldName, ".")
  IN  IF ~m.matched
      THEN [ ok |-> FALSE, error |-> InvalidConditionError(token), filter |-> << >> ]
      ELSE IF isList /\ ~im.matched
      THEN [ ok |-> FALSE, error |-> ParenthesesError(m.valueStr), filter |-> << >> ]
      ELSE [ ok |-> TRUE, error |-> NoError,
             filter |-> [ isRelationship |-> includes(m.fieldName, <<".">>),
                          relationshipName |-> IF includes(m.fieldName, <<".">>)
                                               THEN parts[1] ELSE << >>,
                          field |-> IF includes(m.fieldName, <<".">>)
                                    THEN parts[2] ELSE m.fieldName,
                          operator |-> toUpperCase(m.operator),
                          value |-> IF isList
                                    THEN JsArray([ i \in 1..Len(raw) |->
                                                     stripQuotes(trim(raw[i])) ])
                                    ELSE JsString(stripQuotes(m.valueStr)),
                          logicalOperator |-> logicalOperator ] ]

\* The body of parseAdvancedFilter's for loop for a token that is no logical
\* operator.
parseAdvancedCondition(token, logicalOperator) ==
  Bind(conditionMatch(token),
       LAMBDA m : matchedAdvancedCondition(token, m, logicalOperator))

\* parseAdvancedFilter's for loop over the tokens from position k on
RECURSIVE parseAdvancedFrom(_, _, _, _)
parseAdvancedFrom(toks, k, logicalOperator, acc) ==
  IF k > Len(toks) THEN acc
  ELSE IF \E j \in 1..Len(LOGICAL_OPERATORS) : LOGICAL_OPERATORS[j] = toks[k]
  THEN parseAdvancedFrom(toks, k + 1, toks[k], acc)
  ELSE
    Bind(parseAdvancedCondition(toks[k], logicalOperator), LAMBDA r :
      IF ~r.ok THEN [ acc EXCEPT !.ok = FALSE, !.error = r.error ]
      ELSE IF r.filter.isRelationship
      THEN parseAdvancedFrom(toks, k + 1, Undefined,
             [ acc EXCEPT !.relationshipFilters = Append(@, r.filter),
                          !.hasRelationshipFilter = TRUE ])
      ELSE parseAdvancedFrom(toks, k + 1, Undefined,
             [ acc EXCEPT !.directFilters = Append(@, r.filter) ]))

EmptyAdvancedFilter ==
  [ ok |-> TRUE, error |-> NoError, directFilters |-> << >>,
    relationshipFilters |-> << >>, hasRelationshipFilter |-> FALSE ]

parseAdvancedFilter(str) ==
  IF trim(str) = << >> THEN EmptyAdvancedFilter
  ELSE Bind(parseConditions(str),
            LAMBDA toks : parseAdvancedFrom(toks, 1, Undefined, EmptyAdvancedFilter))

\* the switch on relationshipName: table, foreign key and select of a relationship
RelationshipTable ==
  << [ name |-> <<"r","e","s","p","o","n","s","i","b","l","e">>, table |-> <<"u","s","e","r","s">>, foreignKey |-> <<"r","e","s","p","o","n","s","i","b","l","e","_","i","d">>,
       select |-> <<"u","s","e","r","s","!","r","e","s","p","o","n","s","i","b","l","e","_","i","d","(","i","d",",","n","a","m","e",",","e","m","a","i","l",",","r","o","l","e",")">> ],
     [ name |-> <<"o","w","n","e","r">>, table |-> <<"u","s","e","r","s">>, foreignKey |-> <<"o","w","n","e","r","_","i","d">>,
       select |-> <<"u","s","e","r","s","!","o","w","n","e","r","_","i","d","(","i","d",",","n","a","m","e",",","e","m","a","i","l",",","r","o","l","e",")">> ],
     [ name |-> <<"m","a","n","a","g","e","r">>, table |-> <<"u","s","e","r","s">>, foreignKey |-> <<"m","a","n","a","g","e","r","_","i","d">>,
       select |-> <<"u","s","e","r","s","!","m","a","n","a","g","e","r","_","i","d","(","i","d",",","n","a","m","e",",","e","m","a","i","l",",","r","o","l","e",")">> ],
     [ name |-> <<"a","c","c","o","u","n","t">>, table |-> <<"a","c","c","o","u","n","t">>, foreignKey |-> <<"a","c","c","o","u","n","t","_","i","d">>,
       select |-> <<"a","c","c","o","u","n","t","!","a","c","c","o","u","n","t","_","i","d","(","i","d",",","n","a","m","e",",","s","e","g","m","e","n","t",",","s","t","a","t","u","s",",","t","y","p","e",")">> ],
     [ name |-> <<"c","r","e","a","t","e","d","B","y">>, table |-> <<"u","s","e","r","s">>, foreignKey |-> <<"c","r","e","a","t","e","d","_","b","y">>,
       select |-> <<"u","s","e","r","s","!","c","r","e","a","t","e","d","_","b","y","(","i","d",",","n","a","m","e",",","e","m","a","i","l",",","r","o","l","e",")">> ] >>

KnownRelationship(name) == \E k \in 1..Len(RelationshipTable) : RelationshipTable[k].name = name

RelationshipOf(name) ==
  RelationshipTable[CHOOSE k \in 1..Len(RelationshipTable) : RelationshipTable[k].name = name]

\* the keys of the Map relationshipGroups, in insertion order
RECURSIVE groupNames(_, _, _)
groupNames(filters, k, acc) ==
  IF k > Len(filters) THEN acc
  ELSE IF \E j \in 1..Len(acc) : acc[j] = filters[k].relationshipName
  THEN groupNames(filters, k + 1, acc)
  ELSE groupNames(filters, k + 1, Append(acc, filters[k].relationshipName))

\* for (const condition of parsedFilter.directFilters): the column is the field
RECURSIVE applyDirectFilters(_, _, _)
applyDirectFilters(q, filters, k) ==
  IF k > Len(filters) THEN q
  ELSE applyDirectFilters(
         applyOperator(q, filters[k].operator, filters[k].field, filters[k].value),
         filters, k + 1)

\* for (const filter of filters): the filters of one relationship group
RECURSIVE applyGroup(_, _, _, _)
applyGroup(q, filters, k, rel) ==
  IF k > Len(filters) THEN q
  ELSE IF filters[k].relationshipName # rel.name THEN applyGroup(q, filters, k + 1, rel)
  ELSE applyGroup(
         applyOperator(q, filters[k].operator, rel.table \o <<".">> \o filters[k].field,
                       filters[k].value),
         filters, k + 1, rel)

\* for (const [relationshipName, filters] of relationshipGroups): the handle and
\* the relationship selects collected so far
RECURSIVE applyGroups(_, _, _, _)
applyGroups(acc, filters, names, g) ==
  IF g > Len(names) THEN acc
  ELSE IF ~KnownRelationship(names[g]) THEN applyGroups(acc, filters, names, g + 1)
  ELSE
    LET rel == RelationshipOf(names[g])
    IN  applyGroups(
          [ q |-> applyGroup(acc.q, filters, 1, rel),
            selects |-> IF \E j \in 1..Len(acc.selects) : acc.selects[j] = rel.select
                        THEN acc.selects ELSE Append(acc.selects, rel.select) ],
          filters, names, g + 1)

applyAdvancedFiltersToQuery(q, parsed) ==
  LET q1 == applyDirectFilters(q, parsed.directFilters, 1)
      r  == applyGroups([ q |-> q1, selects |-> << >> ], parsed.relationshipFilters,
                        groupNames(parsed.relationshipFilters, 1, << >>), 1)
  IN  IF ~parsed.hasRelationshipFilter THEN q1
      ELSE IF Len(r.selects) > 0
      THEN Append(r.q, BuilderCall("select", join(<< <<"*">> >> \o r.selects, <<",">>), "",
                                   JsString(<<"c","o","u","n","t",":","e","x","a","c","t">>)))
      ELSE r.q

(***************************************************************************)
(* applyFiltersToQuery                                                     *)
(***************************************************************************)
\* the text one condition is converted back to
conditionString(condition) ==
  LET quoted == [ i \in 1..Len(condition.value.items) |->
                    <<"'">> \o condition.value.items[i] \o <<"'">> ]
      valueStr == IF condition.value.isArray THEN <<"(">> \o join(quoted, <<",">>) \o <<")">>
                  ELSE <<"'">> \o condition.value.text \o <<"'">>
      conditionStr == condition.field \o <<" ">> \o condition.operator \o <<" ">> \o valueStr
  IN  IF condition.logicalOperator # Undefined
      THEN condition.logicalOperator \o <<" ">> \o conditionStr
      ELSE conditionStr

\* parsedFilter.conditions.map(...).join(' ')
toFilterString(conds) ==
  join([ i \in 1..Len(conds) |-> conditionString(conds[i]) ], <<" ">>)

\* the loop taken from the last condition to the first
RECURSIVE applyConditionsBackwards(_, _, _, _)
applyConditionsBackwards(q, conds, k, e) ==
  IF k > Len(conds) THEN q
  ELSE
    LET c == conds[Len(conds) - k + 1]
        dbField == IF HasEntityFields(e) /\ InObject(c.field, ENTITY_FIELDS[e])
                   THEN Lookup(ENTITY_FIELDS[e], c.field)
                   ELSE c.field
    IN  IF includes(c.field, <<".">>) THEN applyConditionsBackwards(q, conds, k + 1, e)
        ELSE applyConditionsBackwards(applyOperator(q, c.operator, dbField, c.value),
                                      conds, k + 1, e)

\* the loop with a condition declared OR applied through the builder's or
RECURSIVE applyConditionsDisjunctive(_, _, _, _)
applyConditionsDisjunctive(q, conds, k, e) ==
  IF k > Len(conds) THEN q
  ELSE
    LET c == conds[k]
        dbField == IF HasEntityFields(e) /\ InObject(c.field, ENTITY_FIELDS[e])
                   THEN Lookup(ENTITY_FIELDS[e], c.field)
                   ELSE c.field
    IN  IF includes(c.field, <<".">>) THEN applyConditionsDisjunctive(q, conds, k + 1, e)
        ELSE IF c.logicalOperator = <<"O","R">>
        THEN applyConditionsDisjunctive(
               Append(q, BuilderCall("or", dbField, "", c.value)),
               conds, k + 1, e)
        ELSE applyConditionsDisjunctive(applyOperator(q, c.operator, dbField, c.value),
                                        conds, k + 1, e)

\* the loop over the conditions of a filter without relationship conditions
RECURSIVE applyConditions(_, _, _, _)
applyConditions(q, conds, k, e) ==
  IF k > Len(conds) THEN q
  ELSE
    LET c == conds[k]
        dbField == IF HasEntityFields(e) /\ InObject(c.field, ENTITY_FIELDS[e])
                   THEN Lookup(ENTITY_FIELDS[e], c.field)
                   ELSE c.field
    IN  IF includes(c.field, <<".">>) THEN applyConditions(q, conds, k + 1, e)
        ELSE applyConditions(applyOperator(q, c.operator, dbField, c.value),
                             conds, k + 1, e)

\* applyFiltersToQuery(query, parsedFilter, entity): the handle it returns, or
\* the error parseAdvancedFilter throws
applyFiltersToQuery(q, parsedFilter, e) ==
  IF Len(parsedFilter.conditions) = 0 THEN [ ok |-> TRUE, error |-> NoError, q |-> q ]
  ELSE IF parsedFilter.hasRelationshipFilter
  THEN Bind(parseAdvancedFilter(toFilterString(parsedFilter.conditions)),
            LAMBDA advancedFilter :
              IF advancedFilter.ok
              THEN [ ok |-> TRUE, error |-> NoError,
                     q |-> applyAdvancedFiltersToQuery(q, advancedFilter) ]
              ELSE [ ok |-> FALSE, error |-> advancedFilter.error, q |-> q ])
  ELSE [ ok |-> TRUE, error |-> NoError,
         q |-> applyConditions(q, parsedFilter.conditions, 1, e) ]

\* a request as the list handlers run it: parseFilter, then applyFiltersToQuery on
\* a fresh handle; the error of whichever throws, or the calls on the handle
handleFilter(str, e) ==
  Bind(parseFilter(str, e), LAMBDA p :
    IF ~p.parsed.returned THEN [ error |-> p.error, q |-> << >> ]
    ELSE Bind(applyFiltersToQuery(<< >>, p.parsed, e), LAMBDA r :
           [ error |-> r.error, q |-> r.q ]))

(***************************************************************************)
(* The requests: filter texts and entity scopes                            *)
(***************************************************************************)
\* the most conditions a filter text of the model has
MaxConds == 2

\* the entity names the controllers pass, and no entity
Entities == { "account", "business", "users", "item", "account_timeline",
              "business_proposal", NoEntity }

\* the condition texts a filter starts with
FirstConds ==
  { <<"n","a","m","e"," ","="," ","'","B","o","b"," ","A","N","D"," ","C","o","'">>,
    <<"n","a","m","e"," ","="," ","\"","x"," ","o","r"," ","y","\"">>,
    <<"n","a","m","e","=","'","B","o","b","\t","O","r"," "," ","C","o","'">>,
    <<"n","a","m","e"," ","="," ","\"","i","t","'","s"," ","A","N","D"," ","o","k","\"">>,
    <<"n","a","m","e"," ","="," ","'","a",";","b","'">>,
    <<"n","a","m","e"," ","="," ","'","x","-","-","y","'">>,
    <<"n","a","m","e"," ","="," ","'","-","/","*","-","'">>,
    <<"n","a","m","e"," ","="," ","'","d","r","o","p"," ","i","t","'">>,
    <<"n","a","m","e"," ","l","i","k","e"," ","'","a","%","'">>,
    <<"n","a","m","e"," ","I","L","I","K","E"," ","'","A","%","'">>,
    <<"n","a","m","e"," ","!","="," ","'","a","'">>,
    <<"n","a","m","e"," ","<",">"," ","'","a","'">>,
    <<"n","a","m","e"," ","I","N"," ","(","'","a",";","b","'",",","'","U","N","I","O","N"," ","y","'",")">>,
    <<"n","a","m","e"," ","~"," ","'","a","'">>,
    <<"n","a","m","e"," ","B","E","T","W","E","E","N"," ","'","a","'">>,
    <<"p","r","i","c","e"," ","B","E","T","W","E","E","N"," ","1","0","0"," ","A","N","D"," ","1","0","0","0">>,
    <<"n","a","m","e"," ","="," ","\"","a">>,
    <<"s","t","a","t","u","s"," ","="," ","'","A","C","T","I","V","E","'"," ","A","N","D"," ">>,
    <<"s","t","a","t","u","s"," ","="," ","'","A","C","T","I","V","E","'">>,
    <<"s","t","a","t","u","s"," ","="," ","'","N","O","P","E","'">>,
    <<"s","t","a","t","u","s"," ","="," ","A","C","T","I","V","E">>,
    <<"n","a","m","e"," ","="," ","'","a","\"">>,
    <<"s","t","a","t","u","s"," ","n","o","t"," ","i","n"," ","(","'","A","C","T","I","V","E","'",",","'","I","N","A","C","T","I","V","E","'",")">>,
    <<"s","t","a","t","u","s"," ","I","N"," ","(","'","A","C","T","I","V","E","'",",","'","N","O","P","E","'",",","'","B","A","D","'",")">>,
    <<"o","w","n","e","r",".","r","o","l","e"," ","="," ","'","G","U","E","S","T","'">>,
    <<"c","u","r","r","e","n","c","y"," ","="," ","'","U","S","D","'">>,
    <<"s","t","a","g","e"," ","I","N"," ","P","r","o","p","o","s","a","l">>,
    <<"s","t","a","g","e"," ","I","n"," ","(","'","P","r","o","p","o","s","a","l","'",","," ","\"","N","e","g","o","t","i","a","t","i","o","n","\"",")">>,
    <<"t","y","p","e"," ","="," ","'","L","e","a","d","'">>,
    <<"p","r","i","c","e"," ",">","="," ","'","1","0","0","'">>,
    <<"p","r","i","c","e"," ","<","="," ","1","0","0","0">>,
    <<"p","r","i","c","e"," ","<"," ","'","5","'">>,
    <<"p","r","i","c","e"," ",">"," ","'","-","1","'">>,
    <<"p","r","i","c","e"," ","="," ","'","'">>,
    <<"r","e","s","p","o","n","s","i","b","l","e",".","n","a","m","e"," ","="," ","'","J","a","n","e"," ","D","o","e","'">>,
    <<"o","w","n","e","r",".","n","a","m","e"," ","="," ","'","L","u","c","a","s","'">>,
    <<"a","c","c","o","u","n","t",".","t","y","p","e"," ","="," ","'","L","e","a","d","'">>,
    <<"a","c","c","o","u","n","t",".","t","y","p","e"," ","="," ","'","N","O","T","E","'">>,
    <<"f","o","o",".","n","a","m","e"," ","="," ","'","x","'">>,
    <<"b","o","g","u","s","_","f","i","e","l","d"," ","="," ","'","x","'">>,
    <<"c","o","n","s","t","r","u","c","t","o","r"," ","="," ","'","x","'">>,
    <<"t","o","S","t","r","i","n","g"," ","="," ","'","x","'">>,
    <<"O","R">> }

\* the condition texts that follow
TailConds ==
  { <<"s","t","a","t","u","s"," ","="," ","'","A","C","T","I","V","E","'">>,
    <<"r","e","s","p","o","n","s","i","b","l","e",".","n","a","m","e"," ","="," ","'","J","a","n","e"," ","D","o","e","'">>,
    <<"b","o","g","u","s","_","f","i","e","l","d"," ","="," ","'","x","'">> }

\* the texts between two conditions
Seps == { <<" ","A","N","D"," ">>, <<" "," ","o","r","\t">> }

\* filter texts without a condition
BlankTexts == { << >>, <<" "," ">> }

\* the filter text made of the condition texts cs joined by the separators ss
RECURSIVE Assemble(_, _)
Assemble(cs, ss) ==
  IF Len(cs) = 0 THEN << >>
  ELSE IF Len(cs) = 1 THEN cs[1]
  ELSE cs[1] \o ss[1] \o Assemble(Tail(cs), Tail(ss))

\* no second request in flight
NoRequest == [ pc |-> "none" ]

(***************************************************************************)
(* The state machine: one request through parseFilter and                  *)
(* applyFiltersToQuery                                                     *)
(***************************************************************************)
Init ==
  /\ \E n \in 0..MaxConds :
       IF n = 0
       THEN /\ condTexts = << >>
            /\ seps = << >>
            /\ filterString \in BlankTexts
       ELSE /\ \E f \in FirstConds : \E t \in [ 1..(n - 1) -> TailConds ] :
                 condTexts = << f >> \o t
            /\ seps \in [ 1..(n - 1) -> Seps ]
            /\ filterString = Assemble(condTexts, seps)
  /\ entity \in Entities
  /\ pc = "start"
  /\ tokens = << >>
  /\ idx = 1
  /\ currentLogicalOperator = Undefined
  /\ conditions = << >>
  /\ hasRelationshipFilter = FALSE
  /\ relationshipFields = {}
  /\ result = NoResult
  /\ error = NoError
  /\ query = << >>
  /\ responses = << >>
  /\ executed = FALSE
  /\ throwsAt = 0
  /\ rawFilter = filterString
  /\ decodePasses = << >>
  /\ other = NoRequest

\* an empty filter text taken for an invalid condition
ReturnEmptyRejected ==
  /\ pc = "start"
  /\ trim(filterString) = << >>
  /\ error' = InvalidConditionError(filterString)
  /\ pc' = "failed"
  /\ UNCHANGED << condTexts, seps, filterString, entity, tokens, idx,
                  currentLogicalOperator, conditions, hasRelationshipFilter,
                  relationshipFields, result, query >>
  /\ UNCHANGED << responses, executed, throwsAt, rawFilter, decodePasses, other >>

\* if (!filterString || filterString.trim() === '') return { conditions: [], ... }
ReturnEmpty ==
  /\ pc = "start"
  /\ trim(filterString) = << >>
  /\ result' = ParsedFilter(<< >>, FALSE, {})
  /\ pc' = "parsed"
  /\ UNCHANGED << condTexts, seps, filterString, entity, tokens, idx,
                  currentLogicalOperator, conditions, hasRelationshipFilter,
                  relationshipFields, error, query >>
  /\ UNCHANGED << responses, executed, throwsAt, rawFilter, decodePasses, other >>

\* const tokens = parseConditions(filterString)
Tokenize ==
  /\ pc = "start"
  /\ trim(filterString) # << >>
  /\ tokens' = parseConditions(filterString)
  /\ idx' = 1
  /\ pc' = "loop"
  /\ UNCHANGED << condTexts, seps, filterString, entity, currentLogicalOperator,
                  conditions, hasRelationshipFilter, relationshipFields, result,
                  error, query >>
  /\ UNCHANGED << responses, executed, throwsAt, rawFilter, decodePasses, other >>

\* the loop body for a token that is a logical operator
LogicalOperatorToken ==
  /\ pc = "loop"
  /\ idx <= Len(tokens)
  /\ IsLogicalOperator(tokens[idx])
  /\ currentLogicalOperator' = tokens[idx]
  /\ idx' = idx + 1
  /\ UNCHANGED << condTexts, seps, filterString, entity, pc, tokens, conditions,
                  hasRelationshipFilter, relationshipFields, result, error, query >>
  /\ UNCHANGED << responses, executed, throwsAt, rawFilter, decodePasses, other >>

\* a loop body that skips the token it rejects and keeps the first error only
ConditionTokenSkipping ==
  /\ pc = "loop"
  /\ idx <= Len(tokens)
  /\ ~IsLogicalOperator(tokens[idx])
  /\ \E r \in { parseCondition(tokens[idx], entity, currentLogicalOperator) } :
         IF r.ok
         THEN /\ conditions' = Append(conditions, r.condition)
              /\ hasRelationshipFilter' =
                   (hasRelationshipFilter \/ includes(r.condition.field, <<".">>))
              /\ relationshipFields' =
                   IF includes(r.condition.field, <<".">>)
                   THEN relationshipFields \cup { relationshipName(r.condition.field) }
                   ELSE relationshipFields
              /\ currentLogicalOperator' = Undefined
              /\ idx' = idx + 1
              /\ UNCHANGED << pc, error >>
         ELSE /\ idx' = idx + 1
              /\ UNCHANGED << conditions, hasRelationshipFilter, relationshipFields,
                              currentLogicalOperator, pc, error >>
  /\ UNCHANGED << condTexts, seps, filterString, entity, tokens, result, query >>
  /\ UNCHANGED << responses, executed, throwsAt, rawFilter, decodePasses, other >>

\* the loop body for any other token: it throws, or pushes the condition
ConditionToken ==
  /\ pc = "loop"
  /\ idx <= Len(tokens)
  /\ ~IsLogicalOperator(tokens[idx])
  /\ \E r \in { parseCondition(tokens[idx], entity, currentLogicalOperator) } :
         IF r.ok
         THEN /\ conditions' = Append(conditions, r.condition)
              /\ hasRelationshipFilter' =
                   (hasRelationshipFilter \/ includes(r.condition.field, <<".">>))
              /\ relationshipFields' =
                   IF includes(r.condition.field, <<".">>)
                   THEN relationshipFields \cup { relationshipName(r.condition.field) }
                   ELSE relationshipFields
              /\ currentLogicalOperator' = Undefined
              /\ idx' = idx + 1
              /\ UNCHANGED << pc, error >>
         ELSE /\ error' = r.error
              /\ pc' = "failed"
              /\ UNCHANGED << conditions, hasRelationshipFilter, relationshipFields,
                              currentLogicalOperator, idx >>
  /\ UNCHANGED << condTexts, seps, filterString, entity, tokens, result, query >>
  /\ UNCHANGED << responses, executed, throwsAt, rawFilter, decodePasses, other >>

\* return { conditions, hasRelationshipFilter, relationshipFields }
ReturnParsed ==
  /\ pc = "loop"
  /\ idx > Len(tokens)
  /\ result' = ParsedFilter(conditions, hasRelationshipFilter, relationshipFields)
  /\ pc' = "parsed"
  /\ UNCHANGED << condTexts, seps, filterString, entity, tokens, idx,
                  currentLogicalOperator, conditions, hasRelationshipFilter,
                  relationshipFields, error, query >>
  /\ UNCHANGED << responses, executed, throwsAt, rawFilter, decodePasses, other >>

\* query = applyFiltersToQuery(query, parsedFilter, entity)
ApplyFilters ==
  /\ pc = "parsed"
  /\ \E r \in { applyFiltersToQuery(query, result, entity) } :
         IF r.ok
         THEN query' = r.q /\ pc' = "applied" /\ UNCHANGED error
         ELSE error' = r.error /\ pc' = "applyFailed" /\ UNCHANGED query
  /\ UNCHANGED << condTexts, seps, filterString, entity, tokens, idx,
                  currentLogicalOperator, conditions, hasRelationshipFilter,
                  relationshipFields, result >>
  /\ UNCHANGED << responses, executed, throwsAt, rawFilter, decodePasses, other >>

\* the response handleFilterError sends: status 400 with the error's message
FilterErrorResponse(filterError) == [ status |-> 400, message |-> filterError ]

\* the statuses handleDatabaseError answers with
DatabaseErrorStatuses == { 400, 409, 500 }

DatabaseError ==
  [ kind |-> "Database error", subject |-> << >>, detail |-> << >>,
    entity |-> NoEntity, allowed |-> << >> ]

\* buildPaginatedQuery(query, page, size) with the default page and size, then
\* query.order('created_at', { ascending: false })
buildPaginatedQuery(q) ==
  q \o << BuilderCall("range", <<"0">>, "", JsString(<<"9">>)),
          BuilderCall("order", <<"c","r","e","a","t","e","d","_","a","t">>, "", JsString(<<"a","s","c","e","n","d","i","n","g",":","f","a","l","s","e">>)) >>

\* the catch block without its return: the handler answers and goes on to the query
HandleFilterErrorFallThrough ==
  /\ entity = "account"
  /\ pc \in { "failed", "applyFailed" }
  /\ responses' = Append(responses, FilterErrorResponse(error))
  /\ query' = buildPaginatedQuery(query)
  /\ executed' = TRUE
  /\ pc' = "responded"
  /\ UNCHANGED << condTexts, seps, filterString, entity, tokens, idx,
                  currentLogicalOperator, conditions, hasRelationshipFilter,
                  relationshipFields, result, error, throwsAt, rawFilter,
                  decodePasses, other >>

\* getAccounts, catch (filterError): handleFilterError(filterError, res, req); return
HandleFilterError ==
  /\ entity = "account"
  /\ pc \in { "failed", "applyFailed" }
  /\ responses' = Append(responses, FilterErrorResponse(error))
  /\ pc' = "responded"
  /\ UNCHANGED << condTexts, seps, filterString, entity, tokens, idx,
                  currentLogicalOperator, conditions, hasRelationshipFilter,
                  relationshipFields, result, error, query, executed, throwsAt,
                  rawFilter, decodePasses, other >>

\* getAccounts after the filter block: pagination, order, await query, and the
\* response for the rows or for the database error
ExecuteQuery ==
  /\ entity = "account"
  /\ pc = "applied"
  /\ query' = buildPaginatedQuery(query)
  /\ executed' = TRUE
  /\ \/ responses' = Append(responses, [ status |-> 200, message |-> NoError ])
     \/ \E s \in DatabaseErrorStatuses :
          responses' = Append(responses, [ status |-> s, message |-> DatabaseError ])
  /\ pc' = "responded"
  /\ UNCHANGED << condTexts, seps, filterString, entity, tokens, idx,
                  currentLogicalOperator, conditions, hasRelationshipFilter,
                  relationshipFields, result, error, throwsAt, rawFilter,
                  decodePasses, other >>

Next ==
  \/ ReturnEmpty
  \/ Tokenize
  \/ LogicalOperatorToken
  \/ ConditionToken
  \/ ReturnParsed
  \/ ApplyFilters
  \/ HandleFilterError
  \/ ExecuteQuery

Spec == Init /\ [][Next]_vars

TypeOK ==
  /\ pc \in { "start", "loop", "parsed", "failed", "applied", "applyFailed", "responded" }
  /\ entity \in Entities
  /\ idx \in 1..(Len(tokens) + 1)
  /\ pc \in { "failed", "applyFailed" } => error # NoError
  /\ pc \in { "start", "loop", "parsed", "applied" } => error = NoError
  /\ executed \in BOOLEAN
  /\ Len(responses) <= 1

(***************************************************************************)
(* Properties                                                              *)
(***************************************************************************)
\* parseFilter has ended, with a result or an error
ParseEnded == pc \in { "parsed", "failed" }

\* a white-space-delimited AND or OR (any case) lies in s strictly between the
\* positions lo and hi
KeywordBetween(s, lo, hi) ==
  \E a \in (lo + 1)..(hi - 1) : \E kw \in { <<"A","N","D">>, <<"O","R">> } :
    /\ IsSpace(s[a])
    /\ MatchesAtIgnoreCase(s, a + 1, kw)
    /\ a + Len(kw) + 1 < hi
    /\ IsSpace(s[a + Len(kw) + 1])

\* the position of the quote that opens the literal a condition text ends with,
\* when that literal holds a keyword; 0 otherwise
QuotedKeywordAt(t) ==
  LET opens == { q \in 1..(Len(t) - 1) :
                   /\ t[q] \in QuoteChars
                   /\ t[Len(t)] = t[q]
                   /\ \A j \in 1..(q - 1) : t[j] \notin QuoteChars
                   /\ \A j \in (q + 1)..(Len(t) - 1) : t[j] # t[q]
                   /\ KeywordBetween(t, q, Len(t)) }
  IN  IF opens = {} THEN 0 ELSE CHOOSE q \in opens : TRUE

\* the filter is one condition whose quoted value contains AND or OR
C1_Case == Len(condTexts) = 1 /\ QuotedKeywordAt(condTexts[1]) > 0

\* v holds the text AND or OR, letter case ignored
HoldsKeyword(v) ==
  \E i \in 1..Len(v) : \E kw \in { <<"A","N","D">>, <<"O","R">> } : MatchesAtIgnoreCase(v, i, kw)

\* C1: the condition splitter never splits on an AND/OR keyword inside a quoted
\* literal: a filter of one condition whose quoted value contains the keyword
\* gives exactly one token, and, when it is accepted, exactly one condition whose
\* value keeps the keyword text (name = 'Bob AND Co' gives the value Bob AND Co).
C1_QuotedKeywordNotSplit ==
  (C1_Case /\ pc # "start") =>
    /\ tokens = << filterString >>
    /\ result.returned =>
         /\ Len(result.conditions) = 1
         /\ ~result.conditions[1].value.isArray
         /\ HoldsKeyword(result.conditions[1].value.text)
    /\ (filterString = <<"n","a","m","e"," ","="," ","'","B","o","b"," ","A","N","D"," ","C","o","'">> /\ result.returned) =>
         result.conditions[1].value.text = <<"B","o","b"," ","A","N","D"," ","C","o">>

C1_Witness ==
  /\ C1_Case
  /\ pc = "parsed"
  /\ filterString = <<"n","a","m","e"," ","="," ","'","B","o","b"," ","A","N","D"," ","C","o","'">>
  /\ Len(result.conditions) = 1

\* the first token follows the grammar and names a field that is no key of the
\* entity's accepted-field map
C2_Case ==
  /\ entity \in RegistryEntities
  /\ ParseEnded
  /\ Len(tokens) >= 1
  /\ conditionMatch(tokens[1]).matched
  /\ conditionMatch(tokens[1]).fieldName \notin OwnKeys(ENTITY_FIELDS[entity])

\* C2: for every entity of the registry and every field name of the grammar that
\* is no key of the entity's accepted-field map, parseFilter fails with the
\* Invalid field error, which names the entity and lists its accepted fields.
C2_UnknownFieldRejected ==
  C2_Case =>
    /\ pc = "failed"
    /\ ~result.returned
    /\ error.kind = "Invalid field"
    /\ error.subject = conditionMatch(tokens[1]).fieldName
    /\ error.entity = entity
    /\ error.allowed = ObjectKeys(ENTITY_FIELDS[entity])

\* C3: when parseFilter is called with an entity name, every condition of a
\* returned ParsedFilter has a field that is a key of that entity's own
\* accepted-field map.
C3_ScopedFieldsOnly ==
  (entity # NoEntity /\ result.returned) =>
    \A i \in 1..Len(result.conditions) :
      /\ HasEntityFields(entity)
      /\ result.conditions[i].field \in OwnKeys(ENTITY_FIELDS[entity])

\* the scalar values a condition stores
ScalarsOf(condition) ==
  IF condition.value.isArray THEN Range(condition.value.items)
  ELSE { condition.value.text }

\* word occurs in v as a whole word, letter case ignored
HasWholeWord(v, word) ==
  \E i \in 1..Len(v) :
    /\ MatchesAtIgnoreCase(v, i, word)
    /\ (i = 1 \/ ~IsWordChar(v[i - 1]))
    /\ (i + Len(word) > Len(v) \/ ~IsWordChar(v[i + Len(word)]))

\* v holds none of the texts sanitizeValue is to remove
IsClean(v) ==
  /\ \A i \in 1..Len(v) : v[i] # ";"
  /\ ~includes(v, <<"-","-">>)
  /\ ~includes(v, <<"/","*">>)
  /\ ~includes(v, <<"*","/">>)
  /\ \A k \in 1..Len(SqlKeywords) : ~HasWholeWord(v, SqlKeywords[k])

\* C4: every scalar value stored in a returned ParsedFilter contains no ';',
\* no '--', no '/*', no '*/' and no whole-word DROP, DELETE, UPDATE, INSERT,
\* ALTER, CREATE, EXEC or UNION.
C4_StoredValuesClean ==
  result.returned =>
    \A i \in 1..Len(result.conditions) :
      \A v \in ScalarsOf(result.conditions[i]) : IsClean(v)

\* the builder primitive an operator stands for
PrimitiveOf(operator) ==
  CASE operator = <<"=">> -> "eq"
    [] operator = <<"!","=">> -> "neq"
    [] operator = <<"<",">">> -> "neq"
    [] operator = <<"<">> -> "lt"
    [] operator = <<">">> -> "gt"
    [] operator = <<"<","=">> -> "lte"
    [] operator = <<">","=">> -> "gte"
    [] operator = <<"L","I","K","E">> -> "like"
    [] operator = <<"I","L","I","K","E">> -> "ilike"
    [] operator = <<"I","N">> -> "in"
    [] operator = <<"N","O","T"," ","I","N">> -> "not"
    [] OTHER -> "none"

\* the calls on the handle that apply a condition (the select of the embedded
\* tables is none)
PrimitiveCalls == SelectSeq(query, LAMBDA c : c.fn # "select")

\* the k-th primitive call carries the operator and value of the k-th condition
CallsFollowConditions ==
  /\ Len(PrimitiveCalls) = Len(result.conditions)
  /\ \A k \in 1..Len(result.conditions) :
       /\ PrimitiveCalls[k].fn = PrimitiveOf(result.conditions[k].operator)
       /\ PrimitiveCalls[k].value = result.conditions[k].value

Offending ==
  { k \in 1..Len(tokens) :
      ~IsLogicalOperator(tokens[k]) /\ ~parseCondition(tokens[k], entity, Undefined).ok }

\* the least position of a non-empty set of positions
FirstOf(positions) == CHOOSE k \in positions : \A j \in positions : k <= j

\* C7: parseFilter stops at the first violation: when conditions of the filter
\* are invalid it raises the error of the earliest of them in text order, returns
\* no ParsedFilter, and nothing is applied to the builder; it fails in no other
\* case.
C7_FirstViolationOnly ==
  ParseEnded =>
    \A offending \in { Offending } :
      IF offending # {}
      THEN /\ pc = "failed"
           /\ ~result.returned
           /\ error = parseCondition(tokens[FirstOf(offending)], entity, Undefined).error
           /\ query = << >>
      ELSE pc # "failed" /\ result.returned

C7_Witness ==
  /\ pc = "failed"
  /\ Offending = { 1, 3 }
  /\ error.kind = "Invalid value for field"
  /\ parseCondition(tokens[3], entity, Undefined).error.kind = "Invalid field"

\* C8: in every ParsedFilter returned, each condition's operator is one of the
\* fixed operators in upper case, whatever the letter case of the text, and its
\* value is a list if and only if the operator is IN or NOT IN.
C8_CanonicalOperators ==
  result.returned =>
    \A i \in 1..Len(result.conditions) :
      /\ result.conditions[i].operator \in Range(ALLOWED_OPERATORS)
      /\ result.conditions[i].value.isArray <=>
           result.conditions[i].operator \in { <<"I","N">>, <<"N","O","T"," ","I","N">> }

C8_Witness ==
  /\ result.returned
  /\ filterString = <<"s","t","a","t","u","s"," ","n","o","t"," ","i","n"," ","(","'","A","C","T","I","V","E","'",",","'","I","N","A","C","T","I","V","E","'",")">>
  /\ result.conditions[1].operator = <<"N","O","T"," ","I","N">>
  /\ result.conditions[1].value = JsArray(<< <<"A","C","T","I","V","E">>, <<"I","N","A","C","T","I","V","E">> >>)

\* the tokens that are conditions, in text order
ConditionTokens == SelectSeq(tokens, LAMBDA t : ~IsLogicalOperator(t))

\* the text of a qualified field before its '.'
PrefixOf(field) ==
  SubSeq(field, 1, (CHOOSE d \in 1..Len(field) : field[d] = ".") - 1)

IsQualified(field) == "." \in Range(field)

\* C9: in every ParsedFilter returned, hasRelationshipFilter is true if and only
\* if some condition's field contains a '.', the relationship names are exactly
\* the prefixes of those fields, and each field is kept as the text wrote it,
\* qualifier included.
C9_RelationshipNames ==
  result.returned =>
    /\ result.hasRelationshipFilter <=>
         \E i \in 1..Len(result.conditions) : IsQualified(result.conditions[i].field)
    /\ result.relationshipFields =
         { PrefixOf(result.conditions[i].field) :
             i \in { j \in 1..Len(result.conditions) :
                       IsQualified(result.conditions[j].field) } }
    /\ Len(result.conditions) = Len(ConditionTokens)
    /\ \A i \in 1..Len(result.conditions) :
         LET f == result.conditions[i].field
             t == ConditionTokens[i]
         IN  /\ Len(f) < Len(t)
             /\ SubSeq(t, 1, Len(f)) = f
             /\ t[Len(f) + 1] \notin WordChars \cup { "." }

C9_Witness ==
  /\ result.returned
  /\ entity = "account"
  /\ result.hasRelationshipFilter
  /\ result.relationshipFields = { <<"r","e","s","p","o","n","s","i","b","l","e">> }
  /\ Len(result.conditions) = 2
  /\ result.conditions[1].field = <<"s","t","a","t","u","s">>
  /\ result.conditions[2].field = <<"r","e","s","p","o","n","s","i","b","l","e",".","n","a","m","e">>

\* the keyword of a separator text, in upper case
KeywordOf(sep) == toUpperCase(trim(sep))

\* C10: parseFilter returns the conditions in the order of the text; the first
\* condition has no logicalOperator and every later one records, in upper case,
\* the AND/OR keyword that immediately precedes it in the text.
C10_OrderAndLogicalOperators ==
  result.returned =>
    \A i \in 1..Len(result.conditions) :
      /\ result.conditions[i].logicalOperator =
           IF i = 1 THEN Undefined
           ELSE KeywordOf(seps[Len(condTexts) - Len(result.conditions) + i - 1])
      /\ LET t == condTexts[Len(condTexts) - Len(result.conditions) + i]
         IN  SubSeq(t, 1, Len(result.conditions[i].field)) = result.conditions[i].field

\* the operator text is IN or NOT IN, letter case ignored
IsListOperator(operator) == toUpperCase(operator) \in { <<"I","N">>, <<"N","O","T"," ","I","N">> }

\* the value text is a list between parentheses
Parenthesised(valueStr) ==
  /\ Len(valueStr) >= 3
  /\ valueStr[1] = "("
  /\ valueStr[Len(valueStr)] = ")"

\* the text between the outer parentheses, split on commas, white space and
\* quotes taken off each element
StrippedElements(valueStr) ==
  LET raw == split(SubSeq(valueStr, 2, Len(valueStr) - 1), ",")
  IN  [ j \in 1..Len(raw) |-> stripQuotes(trim(raw[j])) ]

\* a list condition without parentheses is rejected with the
\* IN operator requires parentheses error
UnparenthesisedListRejected ==
  (pc \in { "parsed", "failed" } /\ Len(tokens) >= 1) =>
    \A m \in { conditionMatch(tokens[1]) } :
      ( /\ m.matched
        /\ fieldAccepted(m.fieldName, entity)
        /\ IsListOperator(m.operator)
        /\ ~Parenthesised(m.valueStr) ) =>
        /\ pc = "failed"
        /\ ~result.returned
        /\ error.kind = "IN operator requires parentheses"
        /\ error.subject = m.valueStr

\* C11 as stated: an accepted IN / NOT IN condition has a parenthesised value
\* text and stores the elements between the parentheses, split on commas, with
\* white space and quotes stripped and nothing else changed; without parentheses
\* parsing fails with the IN operator requires parentheses error.
C11_ListIsStrippedElements ==
  /\ UnparenthesisedListRejected
  /\ result.returned =>
       \A i \in 1..Len(result.conditions) :
         \A m \in { conditionMatch(ConditionTokens[i]) } :
           IsListOperator(m.operator) =>
             /\ Parenthesised(m.valueStr)
             /\ result.conditions[i].value = JsArray(StrippedElements(m.valueStr))

\* C11 (amended): an accepted IN / NOT IN condition has a parenthesised value
\* text and stores, in order, the elements between the parentheses split on
\* commas, each with white space and quotes stripped and then sanitized; without
\* parentheses parsing fails with the IN operator requires parentheses error.
C11_ListIsSanitizedElements ==
  /\ UnparenthesisedListRejected
  /\ result.returned =>
       \A i \in 1..Len(result.conditions) :
         \A m \in { conditionMatch(ConditionTokens[i]) } :
           IsListOperator(m.operator) =>
             /\ Parenthesised(m.valueStr)
             /\ result.conditions[i].value.isArray
             /\ \A els \in { StrippedElements(m.valueStr) } :
                  /\ Len(result.conditions[i].value.items) = Len(els)
                  /\ \A j \in 1..Len(els) :
                       result.conditions[i].value.items[j] = sanitizeValue(els[j])

C11_Witness ==
  /\ result.returned
  /\ entity = "business"
  /\ filterString = <<"s","t","a","g","e"," ","I","n"," ","(","'","P","r","o","p","o","s","a","l","'",","," ","\"","N","e","g","o","t","i","a","t","i","o","n","\"",")">>
  /\ result.conditions[1].value = JsArray(<< <<"P","r","o","p","o","s","a","l">>, <<"N","e","g","o","t","i","a","t","i","o","n">> >>)

\* the field's name without its relationship qualifier
BaseName(field) ==
  IF IsQualified(field) THEN SubSeq(field, Len(PrefixOf(field)) + 2, Len(field))
  ELSE field

\* the type enum of the entity that owns a field named type: the entity the
\* qualifier leads to, or else the entity of the scope; without either, the
\* enums of the entities that have a type
TypeEnumOf(field, e) ==
  IF IsQualified(field) /\ PrefixOf(field) = <<"a","c","c","o","u","n","t">> THEN AccountTypes
  ELSE IF ~IsQualified(field) /\ e = "account" THEN AccountTypes
  ELSE IF ~IsQualified(field) /\ e = "item" THEN ItemTypes
  ELSE IF ~IsQualified(field) /\ e = "account_timeline" THEN TimelineTypes
  ELSE AccountTypes \cup ItemTypes \cup TimelineTypes

\* C12: every accepted condition whose field base name is type, qualified or
\* not, under any entity scope or none, has values that are members of the type
\* enum of the entity owning the field; a condition with any other value is not
\* accepted.
C12_TypeValueInOwnerEnum ==
  result.returned =>
    \A i \in 1..Len(result.conditions) :
      BaseName(result.conditions[i].field) = <<"t","y","p","e">> =>
        \A v \in ScalarsOf(result.conditions[i]) :
          v \in TypeEnumOf(result.conditions[i].field, entity)

\* the scalar values a matched condition text presents to validation, in order:
\* the elements of its list, or its single value, quotes stripped and sanitized
PresentedValues(m) ==
  IF IsListOperator(m.operator)
  THEN LET els == StrippedElements(m.valueStr)
       IN  [ j \in 1..Len(els) |-> sanitizeValue(els[j]) ]
  ELSE << sanitizeValue(stripQuotes(m.valueStr)) >>

\* the first token reaches value validation: it follows the grammar, its field is
\* accepted for the scope, and a list operator has its parentheses
ReachesValidation(m) ==
  /\ m.matched
  /\ fieldAccepted(m.fieldName, entity)
  /\ IsListOperator(m.operator) => Parenthesised(m.valueStr)

\* the first condition was accepted
FirstAccepted(m) ==
  /\ Len(conditions) >= 1
  /\ conditions[1].field = m.fieldName
  /\ ~(pc = "failed" /\ idx = 1)

\* parseFilter failed on the first condition with the Invalid value error that
\* names the field and the value
FirstRejectedWith(m, v) ==
  /\ pc = "failed"
  /\ Len(conditions) = 0
  /\ ~result.returned
  /\ error.kind = "Invalid value for field"
  /\ error.subject = m.fieldName
  /\ error.detail = v

\* the first condition is accepted when every value it presents is in the set
\* allowed, and otherwise rejected with the first value that is not
AcceptedOnlyWithin(m, allowed) ==
  \A vals \in { PresentedValues(m) } :
    \A bad \in { { j \in 1..Len(vals) : vals[j] \notin allowed } } :
      IF bad = {} THEN FirstAccepted(m)
      ELSE FirstRejectedWith(m, vals[FirstOf(bad)])

\* the enum of a field whose base name is status, role, stage or currency
EnumOf(base) ==
  CASE base = <<"s","t","a","t","u","s">> -> AccountStatuses
    [] base = <<"r","o","l","e">> -> UserRoles
    [] base = <<"s","t","a","g","e">> -> BusinessStages
    [] base = <<"c","u","r","r","e","n","c","y">> -> Currencies

\* C13: for a field with base name status, role, stage or currency a condition
\* is accepted only if its value, or every element of its list, is a member of
\* the enum of that name; otherwise parseFilter fails with the Invalid value
\* error naming the field and the first rejected value.
C13_EnumFieldsValidated ==
  (pc \in { "parsed", "failed" } /\ Len(tokens) >= 1) =>
    \A m \in { conditionMatch(tokens[1]) } :
      ( /\ ReachesValidation(m)
        /\ BaseName(m.fieldName) \in { <<"s","t","a","t","u","s">>, <<"r","o","l","e">>, <<"s","t","a","g","e">>, <<"c","u","r","r","e","n","c","y">> } ) =>
        AcceptedOnlyWithin(m, EnumOf(BaseName(m.fieldName)))

C13_Witness ==
  /\ pc = "failed"
  /\ entity = "account"
  /\ condTexts[1] = <<"s","t","a","t","u","s"," ","I","N"," ","(","'","A","C","T","I","V","E","'",",","'","N","O","P","E","'",",","'","B","A","D","'",")">>
  /\ error = InvalidValueError(<<"s","t","a","t","u","s">>, <<"N","O","P","E">>)

\* v holds a decimal digit
HasDigit(v) == \E i \in 1..Len(v) : v[i] \in Range(Digits)

\* C14: for the fields price, value and probability every accepted value is a
\* numeric literal that denotes a number >= 0; a negative number, a text that is
\* no number and a value without a digit are rejected.
C14_NumericFieldsNonNegative ==
  result.returned =>
    \A i \in 1..Len(result.conditions) :
      BaseName(result.conditions[i].field) \in { <<"p","r","i","c","e">>, <<"v","a","l","u","e">>, <<"p","r","o","b","a","b","i","l","i","t","y">> } =>
        \A v \in ScalarsOf(result.conditions[i]) :
          /\ HasDigit(v)
          /\ isNonNegativeNumber(v)

\* the column the registry resolves a field of the scope entity to; the field
\* itself where the scope has no registry entry
ColumnOf(field, e) ==
  IF e \in RegistryEntities /\ field \in OwnKeys(ENTITY_FIELDS[e])
  THEN Lookup(ENTITY_FIELDS[e], field)
  ELSE field

\* the builder call the claim assigns to a direct-field condition
ExpectedCall(condition, e) ==
  BuilderCall(PrimitiveOf(condition.operator), ColumnOf(condition.field, e),
              IF condition.operator = <<"N","O","T"," ","I","N">> THEN "in" ELSE "", condition.value)

\* C15: for a filter with only direct-field conditions applyFiltersToQuery makes
\* exactly one builder call per condition, in order: the primitive the operator
\* selects (= eq, != and <> neq, < lt, > gt, <= lte, >= gte, LIKE like,
\* ILIKE ilike, IN in, NOT IN not(column, 'in', list)) with the registry-resolved
\* column name and the validated value.
C15_OneCallPerCondition ==
  (pc = "applied" /\ ~result.hasRelationshipFilter) =>
    /\ Len(query) = Len(result.conditions)
    /\ \A k \in 1..Len(result.conditions) :
         query[k] = ExpectedCall(result.conditions[k], entity)

\* C15 restricted to conditions whose field is a key of the scope's own map
C15_OwnKeyCalls ==
  (pc = "applied" /\ ~result.hasRelationshipFilter) =>
    /\ Len(query) = Len(result.conditions)
    /\ \A k \in 1..Len(result.conditions) :
         (entity \in RegistryEntities =>
            result.conditions[k].field \in OwnKeys(ENTITY_FIELDS[entity])) =>
           query[k] = ExpectedCall(result.conditions[k], entity)

\* handles with calls already recorded on them, as a list handler passes them
SampleHandles ==
  { << >>,
    << BuilderCall("select", <<"*">>, "", JsString(<<"c","o","u","n","t",":","e","x","a","c","t">>)) >>,
    << BuilderCall("select", <<"*">>, "", JsString(<<"c","o","u","n","t",":","e","x","a","c","t">>)),
       BuilderCall("eq", <<"i","d">>, "", JsString(<<"x">>)) >> }

\* C16: for an empty or white-space-only filter text parseFilter returns no
\* conditions, hasRelationshipFilter false and an empty relationship set without
\* raising, and applyFiltersToQuery given that result makes no call on the
\* builder and returns the handle it was given.
C16_EmptyFilterIsNoOp ==
  (trim(filterString) = << >> /\ pc # "start") =>
    /\ pc \notin { "failed", "applyFailed" }
    /\ error = NoError
    /\ result = [ returned |-> TRUE, conditions |-> << >>,
                  hasRelationshipFilter |-> FALSE, relationshipFields |-> {} ]
    /\ pc \in { "parsed", "applied" } => query = << >>
    /\ \A q \in SampleHandles :
         applyFiltersToQuery(q, result, entity) = [ ok |-> TRUE, error |-> NoError, q |-> q ]

C16_Witness ==
  /\ pc = "applied"
  /\ filterString = <<" "," ">>
  /\ result.returned
  /\ Len(result.conditions) = 0
  /\ query = << >>

\* the words of a condition text, separated by single spaces
WordsOf(t) == split(t, " ")

\* the condition text is an accepted field, a word that is no operator of the
\* fixed set, and a value
HasForeignOperator(t) ==
  \A words \in { WordsOf(t) } :
    /\ Len(words) >= 3
    /\ IsFieldName(words[1])
    /\ fieldAccepted(words[1], entity)
    /\ toUpperCase(words[2]) \notin Range(ALLOWED_OPERATORS) \cup { <<"N","O","T">> }

\* C17: a condition whose operator token is not one of the fixed operators
\* (name BETWEEN 'a', name ~ 'a') fails with the Invalid operator error, not
\* with the Invalid filter condition error.
C17_ForeignOperatorRejected ==
  (pc \in { "parsed", "failed" } /\ Len(tokens) >= 1 /\ HasForeignOperator(tokens[1])) =>
    /\ pc = "failed"
    /\ error.kind = "Invalid operator"
    /\ error.subject = WordsOf(tokens[1])[2]

\* the condition text names a qualified field whose qualifier has no
\* relationship descriptor
HasUnknownRelationship(t) ==
  \A m \in { conditionMatch(t) } :
    /\ m.matched
    /\ IsQualified(m.fieldName)
    /\ ~KnownRelationship(PrefixOf(m.fieldName))

\* C18: a relationship-qualified condition whose prefix has no relationship
\* descriptor (foo.name = 'x') makes filter processing fail with the Unknown
\* relationship error; it is never accepted and then left out of the query.
C18_UnknownRelationshipRejected ==
  (pc \in { "failed", "applied", "applyFailed" } /\ Len(tokens) >= 1
     /\ HasUnknownRelationship(tokens[1])) =>
    /\ pc \in { "failed", "applyFailed" }
    /\ error.kind = "Unknown relationship"
    /\ \A advancedFilter \in { parseAdvancedFilter(tokens[1]) } :
         advancedFilter.ok =>
           applyAdvancedFiltersToQuery(<< >>, advancedFilter) # << >>

\* the value text is wrapped in matching single or double quotes
Quoted(valueStr) ==
  /\ Len(valueStr) >= 2
  /\ valueStr[1] \in QuoteChars
  /\ valueStr[Len(valueStr)] = valueStr[1]

\* the condition text is a field, a scalar operator and a value that is not
\* wrapped in matching quotes
HasUnquotedValue(t) ==
  \A m \in { conditionMatch(t) } :
    /\ m.matched
    /\ ~IsListOperator(m.operator)
    /\ ~Quoted(m.valueStr)

\* C19: a scalar condition whose value is not wrapped in matching single or
\* double quotes (status = ACTIVE, or a value opened with ' and closed with ")
\* fails with the Invalid filter condition error that carries the token verbatim.
C19_UnquotedValueRejected ==
  (pc \in { "parsed", "failed" } /\ Len(tokens) >= 1 /\ HasUnquotedValue(tokens[1])) =>
    /\ pc = "failed"
    /\ error = InvalidConditionError(tokens[1])

\* C20: in getAccounts, when parsing or applying the filter raises an error the
\* handler sends exactly one response, with status 400 and the error's message,
\* and never executes the database query; the query is executed only after the
\* filter was parsed and applied without error.
C20_FilterErrorAnswered ==
  /\ Len(responses) <= 1
  /\ error # NoError =>
       /\ ~executed
       /\ responses # << >> => responses = << [ status |-> 400, message |-> error ] >>
       /\ pc = "responded" => Len(responses) = 1
  /\ executed =>
       /\ error = NoError
       /\ result.returned
       /\ \A r \in { applyFiltersToQuery(<< >>, result, entity) } :
            r.ok /\ query = buildPaginatedQuery(r.q)

C20_Witness ==
  /\ pc = "responded"
  /\ entity = "account"
  /\ filterString = <<"b","o","g","u","s","_","f","i","e","l","d"," ","="," ","'","x","'">>
  /\ responses = << [ status |-> 400, message |-> InvalidFieldError(<<"b","o","g","u","s","_","f","i","e","l","d">>, "account") ] >>
  /\ ~executed


(***************************************************************************)
(* The documented range example, and open quotes                           *)
(***************************************************************************)
\* the calls on the handle that restrict column c with primitive fn to value v
RestrictedBy(fn, c, v) ==
  \E k \in 1..Len(query) :
    query[k].fn = fn /\ query[k].column = c /\ query[k].value = JsString(v)

\* C22: the item filter price BETWEEN 100 AND 1000 is accepted by parseFilter
\* under entity item, and the builder is restricted to prices from 100 to 1000.
C22_BetweenAccepted ==
  (filterString = <<"p","r","i","c","e"," ","B","E","T","W","E","E","N"," ","1","0","0"," ","A","N","D"," ","1","0","0","0">> /\ entity = "item"
     /\ pc \notin { "start", "loop" }) =>
    /\ pc \notin { "failed", "applyFailed" }
    /\ pc = "applied" =>
         /\ RestrictedBy("gte", <<"p","r","i","c","e">>, <<"1","0","0">>)
         /\ RestrictedBy("lte", <<"p","r","i","c","e">>, <<"1","0","0","0">>)

\* the position of the quote that is still open at the end of str, 0 when every
\* quote is closed: open is the position of the quote open at i, 0 for none
RECURSIVE OpenQuoteFrom(_, _, _)
OpenQuoteFrom(str, i, open) ==
  IF i > Len(str) THEN open
  ELSE IF open = 0
       THEN OpenQuoteFrom(str, i + 1, IF str[i] \in QuoteChars THEN i ELSE 0)
       ELSE OpenQuoteFrom(str, i + 1, IF str[i] = str[open] THEN 0 ELSE open)

OpenQuote(str) == OpenQuoteFrom(str, 1, 0)

EndsWith(s, t) == Len(t) <= Len(s) /\ SubSeq(s, Len(s) - Len(t) + 1, Len(s)) = t

\* C23: on a text with an unterminated quote the splitter returns its tokens, and
\* everything from the opening quote to the end of the text, AND/OR keywords
\* included, is the end of the last token.
C23_OpenQuoteKeepsRemainder ==
  (pc # "start" /\ trim(filterString) # << >>) =>
    \A open \in { OpenQuote(filterString) } :
      open > 0 =>
        /\ Len(tokens) >= 1
        /\ EndsWith(tokens[Len(tokens)],
                    trim(SubSeq(filterString, open, Len(filterString))))

C23_Witness ==
  /\ pc = "parsed"
  /\ OpenQuote(filterString) > 0
  /\ Len(condTexts) = 2
  /\ Len(tokens) = 1
  /\ KeywordBetween(filterString, OpenQuote(filterString), Len(filterString))

(***************************************************************************)
(* Keywords and conditions                                                 *)
(***************************************************************************)
\* the AND/OR keywords the splitter recognised in the text: each one pushed the
\* condition text before it and itself, and the text after the last one is
\* pushed alone when it is not blank
KeywordsRecognised == Len(tokens) \div 2

\* the conditions that carry a logicalOperator
Joined(conds) == SelectSeq(conds, LAMBDA c : c.logicalOperator # Undefined)

\* C29: a non-empty filter text that parseFilter accepts has one condition more
\* than the splitter recognised keywords, and every recognised keyword is the
\* logicalOperator of exactly one condition; a text with a dangling keyword is
\* not accepted.
C29_ConditionsAreKeywordsPlusOne ==
  (pc = "parsed" /\ trim(filterString) # << >>) =>
    /\ Len(result.conditions) = KeywordsRecognised + 1
    /\ Len(Joined(result.conditions)) = KeywordsRecognised

(***************************************************************************)
(* The round trip through text in applyFiltersToQuery                      *)
(***************************************************************************)
\* the condition a filter of parseAdvancedFilter stands for
ConditionOf(filter) ==
  [ field |-> IF filter.isRelationship
              THEN filter.relationshipName \o <<".">> \o filter.field
              ELSE filter.field,
    operator |-> filter.operator,
    value |-> filter.value,
    logicalOperator |-> filter.logicalOperator ]

ConditionsOf(filters) == [ k \in 1..Len(filters) |-> ConditionOf(filters[k]) ]

\* the text applyFiltersToQuery makes of conds is parsed again into conds: the
\* direct conditions in their order, and the relationship conditions in theirs
RoundTrips(conds) ==
  \A advancedFilter \in { parseAdvancedFilter(toFilterString(conds)) } :
    /\ advancedFilter.ok
    /\ ConditionsOf(advancedFilter.directFilters)
         = SelectSeq(conds, LAMBDA c : ~IsQualified(c.field))
    /\ ConditionsOf(advancedFilter.relationshipFilters)
         = SelectSeq(conds, LAMBDA c : IsQualified(c.field))

\* C30: for every ParsedFilter of parseFilter that has a relationship condition,
\* re-serialising its conditions and parsing the text with parseAdvancedFilter
\* succeeds and keeps each condition's field, operator, value and
\* logicalOperator, and the order among direct and among relationship conditions.
C30_RoundTripPreserves ==
  (pc = "parsed" /\ result.hasRelationshipFilter) => RoundTrips(result.conditions)

(***************************************************************************)
(* The joined-projection adapter                                           *)
(***************************************************************************)
\* the positions on the handle of the select that embeds the related tables
SelectPositions == { k \in 1..Len(query) : query[k].fn = "select" }

\* the positions of the primitive calls against a column of a related table
RelatedCallPositions ==
  { k \in 1..Len(query) : query[k].fn # "select" /\ IsQualified(query[k].column) }

\* the relationship names of the conditions of a ParsedFilter
PrefixesOf(conds) ==
  { PrefixOf(conds[k].field) : k \in { j \in 1..Len(conds) : IsQualified(conds[j].field) } }

\* the length of the embeds in a select list, each with the comma before it
RECURSIVE EmbedsLength(_)
EmbedsLength(embeds) ==
  IF embeds = {} THEN 0
  ELSE LET e == CHOOSE x \in embeds : TRUE
       IN  1 + Len(e) + EmbedsLength(embeds \ { e })

\* the select list holds '*' and the embed of each relationship in names, each
\* once, and nothing else
EmbedsExactly(call, names) ==
  LET embeds == { RelationshipOf(p).select : p \in names }
  IN  /\ call.column[1] = "*"
      /\ \A e \in embeds : includes(call.column, <<",">> \o e)
      /\ Len(call.column) = 1 + EmbedsLength(embeds)

\* C25: for a filter with relationship conditions the select that embeds the
\* related tables is issued exactly once, holds '*' and one embed for each
\* distinct relationship, and is issued before any primitive call for a
\* relationship condition.
C25_SelectBeforeRelatedCalls ==
  (pc = "applied" /\ result.hasRelationshipFilter) =>
    /\ Cardinality(SelectPositions) = 1
    /\ \A s \in SelectPositions :
         /\ EmbedsExactly(query[s], PrefixesOf(result.conditions))
         /\ \A k \in RelatedCallPositions : s < k

\* the select is issued once, with '*' and one embed per distinct relationship
C25_OneSelectForAllRelationships ==
  (pc = "applied" /\ result.hasRelationshipFilter) =>
    /\ Cardinality(SelectPositions) = 1
    /\ \A s \in SelectPositions :
         EmbedsExactly(query[s], PrefixesOf(result.conditions))

\* the relationship conditions grouped by relationship, the groups in the order
\* their relationship first appears, the conditions of a group in their order
RECURSIVE GroupedFrom(_, _)
GroupedFrom(rels, k) ==
  IF k > Len(rels) THEN << >>
  ELSE IF \E j \in 1..(k - 1) : PrefixOf(rels[j].field) = PrefixOf(rels[k].field)
  THEN GroupedFrom(rels, k + 1)
  ELSE SelectSeq(rels, LAMBDA c : PrefixOf(c.field) = PrefixOf(rels[k].field))
         \o GroupedFrom(rels, k + 1)

\* the conditions in the order the adapter is to apply them
JoinedOrder(conds) ==
  SelectSeq(conds, LAMBDA c : ~IsQualified(c.field))
    \o GroupedFrom(SelectSeq(conds, LAMBDA c : IsQualified(c.field)), 1)

\* the column of a relationship condition: '<relatedTable>.<field>'
RelatedColumn(field) ==
  RelationshipOf(PrefixOf(field)).table \o <<".">> \o split(field, ".")[2]

\* the call is the one primitive call of the condition
IsCallOf(call, condition) ==
  /\ call.fn = PrimitiveOf(condition.operator)
  /\ call.value = condition.value
  /\ IsQualified(condition.field) =>
       /\ KnownRelationship(PrefixOf(condition.field))
       /\ call.column = RelatedColumn(condition.field)

JoinedCalls(conds) ==
  /\ Len(PrimitiveCalls) = Len(conds)
  /\ \A k \in 1..Len(conds) : IsCallOf(PrimitiveCalls[k], JoinedOrder(conds)[k])

\* C26: with the joined-projection adapter every condition of a ParsedFilter that
\* parseFilter accepted produces exactly one primitive call: the direct
\* conditions first in their order, then the relationship conditions grouped by
\* relationship (groups in order of first appearance, original order inside a
\* group), each against the column '<relatedTable>.<field>'.
C26_OneCallPerConditionJoined ==
  (pc \in { "applied", "applyFailed" } /\ result.hasRelationshipFilter) =>
    /\ pc = "applied"
    /\ JoinedCalls(result.conditions)

\* C26 for the filters whose text the adapter could parse again
C26_JoinedCallsWhenReparsed ==
  (pc = "applied" /\ result.hasRelationshipFilter) => JoinedCalls(result.conditions)

(***************************************************************************)
(* A builder whose primitives can throw                                    *)
(***************************************************************************)
\* the most primitive calls after which the builder throws
MaxThrowAt == 3

\* the handle while conditions are applied: the calls recorded, the primitive
\* calls made so far, and whether the last one threw
Handle(q) == [ q |-> q, calls |-> 0, threw |-> FALSE ]

\* the switch on the operator with a builder that throws at its t-th primitive
\* call: a call that throws is not recorded
invoke(h, operator, column, value, t) ==
  LET q1 == applyOperator(h.q, operator, column, value)
  IN  IF Len(q1) = Len(h.q) THEN [ h EXCEPT !.threw = FALSE ]
      ELSE IF h.calls + 1 = t
      THEN [ q |-> h.q, calls |-> h.calls + 1, threw |-> TRUE ]
      ELSE [ q |-> q1, calls |-> h.calls + 1, threw |-> FALSE ]

\* throw new Error(`Failed to apply filter for field ${condition.field}: ...`)
FailedToApplyError(field) ==
  [ kind |-> "Failed to apply filter for field", subject |-> field,
    detail |-> <<"b","u","i","l","d","e","r"," ","e","r","r","o","r">>, entity |-> NoEntity, allowed |-> << >> ]

\* applyFiltersToQuery's loop over direct conditions: the catch throws again
RECURSIVE applyConditionsThrowing(_, _, _, _, _)
applyConditionsThrowing(h, conds, k, e, t) ==
  IF k > Len(conds) THEN [ ok |-> TRUE, error |-> NoError, h |-> h ]
  ELSE
    LET c == conds[k]
        dbField == IF HasEntityFields(e) /\ InObject(c.field, ENTITY_FIELDS[e])
                   THEN Lookup(ENTITY_FIELDS[e], c.field)
                   ELSE c.field
    IN  IF includes(c.field, <<".">>) THEN applyConditionsThrowing(h, conds, k + 1, e, t)
        ELSE Bind(invoke(h, c.operator, dbField, c.value, t), LAMBDA h1 :
               IF h1.threw
               THEN [ ok |-> FALSE, error |-> FailedToApplyError(c.field), h |-> h1 ]
               ELSE applyConditionsThrowing(h1, conds, k + 1, e, t))

\* applyAdvancedFiltersToQuery's loop over directFilters: the catch throws again
RECURSIVE applyDirectFiltersThrowing(_, _, _, _)
applyDirectFiltersThrowing(h, filters, k, t) ==
  IF k > Len(filters) THEN [ ok |-> TRUE, error |-> NoError, h |-> h ]
  ELSE Bind(invoke(h, filters[k].operator, filters[k].field, filters[k].value, t),
            LAMBDA h1 :
              IF h1.threw
              THEN [ ok |-> FALSE, error |-> FailedToApplyError(filters[k].field),
                     h |-> h1 ]
              ELSE applyDirectFiltersThrowing(h1, filters, k + 1, t))

\* the loop over the filters of one relationship group: the catch logs a warning
\* and the loop continues with the next filter
RECURSIVE applyGroupThrowing(_, _, _, _, _)
applyGroupThrowing(h, filters, k, rel, t) ==
  IF k > Len(filters) THEN h
  ELSE IF filters[k].relationshipName # rel.name
  THEN applyGroupThrowing(h, filters, k + 1, rel, t)
  ELSE Bind(invoke(h, filters[k].operator, rel.table \o <<".">> \o filters[k].field,
                   filters[k].value, t),
            LAMBDA h1 : applyGroupThrowing(h1, filters, k + 1, rel, t))

RECURSIVE applyGroupsThrowing(_, _, _, _, _)
applyGroupsThrowing(acc, filters, names, g, t) ==
  IF g > Len(names) THEN acc
  ELSE IF ~KnownRelationship(names[g])
  THEN applyGroupsThrowing(acc, filters, names, g + 1, t)
  ELSE
    LET rel == RelationshipOf(names[g])
    IN  applyGroupsThrowing(
          [ h |-> applyGroupThrowing(acc.h, filters, 1, rel, t),
            selects |-> IF \E j \in 1..Len(acc.selects) : acc.selects[j] = rel.select
                        THEN acc.selects ELSE Append(acc.selects, rel.select) ],
          filters, names, g + 1, t)

applyAdvancedFiltersToQueryThrowing(q, parsed, t) ==
  Bind(applyDirectFiltersThrowing(Handle(q), parsed.directFilters, 1, t), LAMBDA d :
    IF ~d.ok THEN [ ok |-> FALSE, error |-> d.error, q |-> d.h.q ]
    ELSE IF ~parsed.hasRelationshipFilter
    THEN [ ok |-> TRUE, error |-> NoError, q |-> d.h.q ]
    ELSE Bind(applyGroupsThrowing([ h |-> d.h, selects |-> << >> ],
                                  parsed.relationshipFilters,
                                  groupNames(parsed.relationshipFilters, 1, << >>), 1, t),
              LAMBDA r :
                [ ok |-> TRUE, error |-> NoError,
                  q |-> IF Len(r.selects) > 0
                        THEN Append(r.h.q,
                                    BuilderCall("select",
                                                join(<< <<"*">> >> \o r.selects, <<",">>), "",
                                                JsString(<<"c","o","u","n","t",":","e","x","a","c","t">>)))
                        ELSE r.h.q ]))

\* applyFiltersToQuery on a builder that throws at its t-th primitive call
applyFiltersToQueryThrowing(q, parsedFilter, e, t) ==
  IF Len(parsedFilter.conditions) = 0 THEN [ ok |-> TRUE, error |-> NoError, q |-> q ]
  ELSE IF parsedFilter.hasRelationshipFilter
  THEN Bind(parseAdvancedFilter(toFilterString(parsedFilter.conditions)),
            LAMBDA advancedFilter :
              IF advancedFilter.ok
              THEN applyAdvancedFiltersToQueryThrowing(q, advancedFilter, t)
              ELSE [ ok |-> FALSE, error |-> advancedFilter.error, q |-> q ])
  ELSE Bind(applyConditionsThrowing(Handle(q), parsedFilter.conditions, 1, e, t),
            LAMBDA r : [ ok |-> r.ok, error |-> r.error, q |-> r.h.q ])

(***************************************************************************)
(* The adapter that collapses a relationship to its foreign key            *)
(***************************************************************************)
\* the two switches on relationshipName: the relationships the adapter knows and
\* the foreign-key column a condition on their id is applied to
ForeignKeyTable ==
  << [ name |-> <<"r","e","s","p","o","n","s","i","b","l","e">>, reference |-> <<"u","s","e","r","s","!","r","e","s","p","o","n","s","i","b","l","e","_","i","d">>,
       filterField |-> <<"r","e","s","p","o","n","s","i","b","l","e","_","i","d">> ],
     [ name |-> <<"m","a","n","a","g","e","r">>, reference |-> <<"u","s","e","r","s","!","m","a","n","a","g","e","r","_","i","d">>,
       filterField |-> <<"m","a","n","a","g","e","r","_","i","d">> ],
     [ name |-> <<"a","c","c","o","u","n","t">>, reference |-> <<"a","c","c","o","u","n","t","!","a","c","c","o","u","n","t","_","i","d">>,
       filterField |-> <<"a","c","c","o","u","n","t","_","i","d">> ],
     [ name |-> <<"b","u","s","i","n","e","s","s">>, reference |-> <<"b","u","s","i","n","e","s","s","!","b","u","s","i","n","e","s","s","_","i","d">>,
       filterField |-> <<"b","u","s","i","n","e","s","s","_","i","d">> ] >>

HasForeignKey(name) == \E k \in 1..Len(ForeignKeyTable) : ForeignKeyTable[k].name = name

ForeignKeyOf(name) ==
  ForeignKeyTable[CHOOSE k \in 1..Len(ForeignKeyTable) : ForeignKeyTable[k].name = name]

\* for (const filter of filters): a filter on id is applied to the foreign-key
\* column, any other is skipped with a warning
RECURSIVE applyGroupForeignKey(_, _, _, _)
applyGroupForeignKey(q, filters, k, fk) ==
  IF k > Len(filters) THEN q
  ELSE IF filters[k].relationshipName # fk.name
  THEN applyGroupForeignKey(q, filters, k + 1, fk)
  ELSE IF filters[k].field # <<"i","d">> THEN applyGroupForeignKey(q, filters, k + 1, fk)
  ELSE applyGroupForeignKey(
         applyOperator(q, filters[k].operator, fk.filterField, filters[k].value),
         filters, k + 1, fk)

\* for (const [relationshipName, filters] of relationshipGroups): an unknown
\* relationship is skipped with a warning
RECURSIVE applyGroupsForeignKey(_, _, _, _)
applyGroupsForeignKey(q, filters, names, g) ==
  IF g > Len(names) THEN q
  ELSE IF ~HasForeignKey(names[g]) THEN applyGroupsForeignKey(q, filters, names, g + 1)
  ELSE applyGroupsForeignKey(
         applyGroupForeignKey(q, filters, 1, ForeignKeyOf(names[g])),
         filters, names, g + 1)

\* applyAdvancedFiltersToQuery of the foreign-key adapter
applyAdvancedFiltersToQueryForeignKey(q, parsed) ==
  LET q1 == applyDirectFilters(q, parsed.directFilters, 1)
  IN  IF ~parsed.hasRelationshipFilter THEN q1
      ELSE applyGroupsForeignKey(q1, parsed.relationshipFilters,
                                 groupNames(parsed.relationshipFilters, 1, << >>), 1)

\* applyFiltersToQuery with the foreign-key adapter behind its require
applyFiltersToQueryForeignKey(q, parsedFilter, e) ==
  IF Len(parsedFilter.conditions) = 0 THEN [ ok |-> TRUE, error |-> NoError, q |-> q ]
  ELSE IF parsedFilter.hasRelationshipFilter
  THEN Bind(parseAdvancedFilter(toFilterString(parsedFilter.conditions)),
            LAMBDA advancedFilter :
              IF advancedFilter.ok
              THEN [ ok |-> TRUE, error |-> NoError,
                     q |-> applyAdvancedFiltersToQueryForeignKey(q, advancedFilter) ]
              ELSE [ ok |-> FALSE, error |-> advancedFilter.error, q |-> q ])
  ELSE [ ok |-> TRUE, error |-> NoError,
         q |-> applyConditions(q, parsedFilter.conditions, 1, e) ]

(***************************************************************************)
(* The state machine of a request whose builder throws, or whose adapter   *)
(* is the foreign-key one                                                  *)
(***************************************************************************)
\* the condition texts a filter of these requests starts with
AdapterFirstConds ==
  { <<"s","t","a","t","u","s"," ","="," ","'","A","C","T","I","V","E","'">>,
    <<"n","a","m","e"," ","I","N"," ","(","'","a","'",",","'","b","'",")">>,
    <<"r","e","s","p","o","n","s","i","b","l","e",".","n","a","m","e"," ","="," ","'","J","a","n","e"," ","D","o","e","'">>,
    <<"o","w","n","e","r",".","n","a","m","e"," ","="," ","'","L","u","c","a","s","'">>,
    <<"r","e","s","p","o","n","s","i","b","l","e",".","i","d"," ","="," ","'","1","2","3","e","4","5","6","7","-","e","8","9","b","-","1","2","d","3","-","a","4","5","6","-","4","2","6","6","1","4","1","7","4","0","0","0","'">>,
    <<"o","w","n","e","r",".","i","d"," ","="," ","'","1","2","3","e","4","5","6","7","-","e","8","9","b","-","1","2","d","3","-","a","4","5","6","-","4","2","6","6","1","4","1","7","4","0","0","0","'">>,
    <<"m","a","n","a","g","e","r",".","i","d"," ","="," ","'","1","2","3","e","4","5","6","7","-","e","8","9","b","-","1","2","d","3","-","a","4","5","6","-","4","2","6","6","1","4","1","7","4","0","0","0","'">>,
    <<"a","c","c","o","u","n","t",".","i","d"," ","!","="," ","'","1","2","3","e","4","5","6","7","-","e","8","9","b","-","1","2","d","3","-","a","4","5","6","-","4","2","6","6","1","4","1","7","4","0","0","0","'">>,
    <<"c","r","e","a","t","e","d","B","y",".","i","d"," ","="," ","'","1","2","3","e","4","5","6","7","-","e","8","9","b","-","1","2","d","3","-","a","4","5","6","-","4","2","6","6","1","4","1","7","4","0","0","0","'">>,
    <<"O","R">> }

InitAdapters ==
  /\ \E n \in 1..MaxConds :
       /\ \E f \in AdapterFirstConds : \E t \in [ 1..(n - 1) -> TailConds ] :
            condTexts = << f >> \o t
       /\ seps \in [ 1..(n - 1) -> Seps ]
       /\ filterString = Assemble(condTexts, seps)
  /\ entity \in Entities
  /\ pc = "start"
  /\ tokens = << >>
  /\ idx = 1
  /\ currentLogicalOperator = Undefined
  /\ conditions = << >>
  /\ hasRelationshipFilter = FALSE
  /\ relationshipFields = {}
  /\ result = NoResult
  /\ error = NoError
  /\ query = << >>
  /\ responses = << >>
  /\ executed = FALSE
  /\ throwsAt = 0
  /\ rawFilter = filterString
  /\ decodePasses = << >>
  /\ other = NoRequest

\* query = applyFiltersToQuery(query, parsedFilter, entity) on a builder that
\* throws at one of the primitive calls the conditions lead to
ApplyFiltersBuilderThrows ==
  /\ pc = "parsed"
  /\ \E t \in 1..MaxThrowAt :
       /\ \A r0 \in { applyFiltersToQuery(query, result, entity) } :
            r0.ok /\ t <= Len(SelectSeq(r0.q, LAMBDA c : c.fn # "select"))
       /\ throwsAt' = t
       /\ \E r \in { applyFiltersToQueryThrowing(query, result, entity, t) } :
            IF r.ok
            THEN query' = r.q /\ pc' = "applied" /\ UNCHANGED error
            ELSE error' = r.error /\ pc' = "applyFailed" /\ query' = r.q
  /\ UNCHANGED << condTexts, seps, filterString, entity, tokens, idx,
                  currentLogicalOperator, conditions, hasRelationshipFilter,
                  relationshipFields, result, responses, executed, rawFilter,
                  decodePasses, other >>

\* query = applyFiltersToQuery(query, parsedFilter, entity) with the foreign-key
\* adapter
ApplyFiltersForeignKey ==
  /\ pc = "parsed"
  /\ \E r \in { applyFiltersToQueryForeignKey(query, result, entity) } :
         IF r.ok
         THEN query' = r.q /\ pc' = "collapsed" /\ UNCHANGED error
         ELSE error' = r.error /\ pc' = "applyFailed" /\ UNCHANGED query
  /\ UNCHANGED << condTexts, seps, filterString, entity, tokens, idx,
                  currentLogicalOperator, conditions, hasRelationshipFilter,
                  relationshipFields, result, responses, executed, throwsAt,
                  rawFilter, decodePasses, other >>

NextAdapters ==
  \/ Tokenize
  \/ LogicalOperatorToken
  \/ ConditionToken
  \/ ReturnParsed
  \/ ApplyFiltersBuilderThrows
  \/ ApplyFiltersForeignKey

SpecAdapters == InitAdapters /\ [][NextAdapters]_vars

\* C24: when a builder primitive throws while applyFiltersToQuery applies a
\* condition, direct or relationship-qualified, the caller gets an error; no
\* handle is returned that lacks a condition of the filter.
C24_BuilderFailureReachesCaller ==
  (throwsAt > 0 /\ pc \in { "applied", "applyFailed" }) =>
    /\ pc = "applyFailed"
    /\ error.kind = "Failed to apply filter for field"

\* a failure in the loops over direct conditions reaches the caller
C24_DirectFailureReachesCaller ==
  (throwsAt > 0 /\ pc \in { "applied", "applyFailed" }
     /\ throwsAt <= Len(SelectSeq(result.conditions, LAMBDA c : ~IsQualified(c.field)))) =>
    /\ pc = "applyFailed"
    /\ error.kind = "Failed to apply filter for field"

\* the calls the claim assigns to the conditions under the foreign-key adapter:
\* the direct conditions, then for each relationship condition on id one call
\* against the owning row's foreign-key column
ForeignKeyCall(condition) ==
  BuilderCall(PrimitiveOf(condition.operator),
              RelationshipOf(PrefixOf(condition.field)).foreignKey,
              IF condition.operator = <<"N","O","T"," ","I","N">> THEN "in" ELSE "", condition.value)

OnIdentifier(condition) ==
  IsQualified(condition.field) /\ split(condition.field, ".")[2] = <<"i","d">>

\* C27: with the foreign-key adapter every relationship condition on <rel>.id,
\* for responsible, owner, manager, account and createdBy, results in one
\* primitive call against the owning row's foreign-key column, and a
\* relationship condition on any other field results in no call and no error.
C27_IdentifierConditionsCollapse ==
  (pc = "collapsed" /\ result.hasRelationshipFilter) =>
    \A related \in { GroupedFrom(SelectSeq(result.conditions,
                                           LAMBDA c : IsQualified(c.field)), 1) } :
      \A onId \in { SelectSeq(related, OnIdentifier) } :
        \A calls \in { SelectSeq(query, LAMBDA c : "_" \in Range(c.column)) } :
          /\ Len(calls) = Len(onId)
          /\ \A k \in 1..Len(onId) : calls[k] = ForeignKeyCall(onId[k])

(***************************************************************************)
(* getAccounts: the percent-decoding of queryParams.filter before          *)
(* parseFilter                                                             *)
(***************************************************************************)
\* the characters with the codes 32..95 and 97..126, in code order (the grave
\* accent, 96, is no character of the texts here)
AsciiBelowGrave ==
  <<" ","!","\"","#","$","%","&","'","(",")","*","+",",","-",".","/","0","1","2","3","4","5","6","7","8","9",":",";","<","=",">","?","@","A","B","C","D","E","F","G","H","I","J","K","L","M","N","O","P","Q","R","S","T","U","V","W","X","Y","Z","[","\\","]","^","_">>

AsciiAboveGrave == <<"a","b","c","d","e","f","g","h","i","j","k","l","m","n","o","p","q","r","s","t","u","v","w","x","y","z","{","|","}","~">>

\* the character an escape below 0x80 stands for
CharOf(byte) ==
  IF byte = 9 THEN "\t"
  ELSE IF byte < 96 THEN AsciiBelowGrave[byte - 31]
  ELSE AsciiAboveGrave[byte - 96]

HexValue(c) ==
  (CHOOSE k \in 1..16 : <<"0","1","2","3","4","5","6","7","8","9","A","B","C","D","E","F">>[k] = UpperChar(c)) - 1

\* the byte the escape at position i of s stands for, -1 if there is no
\* well-formed %XX at i
ByteAt(s, i) ==
  IF i + 2 <= Len(s) /\ s[i] = "%" /\ s[i + 1] \in HexChars /\ s[i + 2] \in HexChars
  THEN 16 * HexValue(s[i + 1]) + HexValue(s[i + 2])
  ELSE -1

\* the number of continuation bytes a UTF-8 lead byte announces, 0 for a byte
\* that cannot lead
Continuations(lead) ==
  IF lead \in 194..223 THEN 1
  ELSE IF lead \in 224..239 THEN 2
  ELSE IF lead \in 240..244 THEN 3
  ELSE 0

\* the values the byte after the lead byte may take
SecondByteRange(lead) ==
  IF lead = 224 THEN 160..191
  ELSE IF lead = 237 THEN 128..159
  ELSE IF lead = 240 THEN 144..191
  ELSE IF lead = 244 THEN 128..143
  ELSE 128..191

\* the characters above 0x7F of the texts here, by their UTF-8 bytes
Utf8Table == << [ bytes |-> << 195, 169 >>, char |-> "U+00E9" ] >>

Utf8Char(bytes) ==
  Utf8Table[CHOOSE k \in 1..Len(Utf8Table) : Utf8Table[k].bytes = bytes].char

\* the position of the first % of s at or after i, Len(s) + 1 if there is none
NextPercent(s, i) ==
  CHOOSE j \in i..(Len(s) + 1) :
    /\ j <= Len(s) => s[j] = "%"
    /\ \A k \in i..(j - 1) : s[k] # "%"

URIError == [ ok |-> FALSE, value |-> << >> ]

RECURSIVE decodeFrom(_, _, _)
decodeFrom(s, i, acc) ==
  IF i > Len(s) THEN [ ok |-> TRUE, value |-> acc ]
  ELSE IF NextPercent(s, i) > i
  THEN decodeFrom(s, NextPercent(s, i), acc \o SubSeq(s, i, NextPercent(s, i) - 1))
  ELSE LET lead == ByteAt(s, i)
           n == Continuations(lead)
           bytes == [ k \in 1..(n + 1) |-> ByteAt(s, i + 3 * (k - 1)) ]
       IN  IF lead = -1 THEN URIError
           ELSE IF lead < 128 THEN decodeFrom(s, i + 3, Append(acc, CharOf(lead)))
           ELSE IF n = 0 THEN URIError
           ELSE IF /\ bytes[2] \in SecondByteRange(lead)
                   /\ \A k \in 3..(n + 1) : bytes[k] \in 128..191
                THEN decodeFrom(s, i + 3 * (n + 1), Append(acc, Utf8Char(bytes)))
                ELSE URIError

\* decodeURIComponent(s): the decoded text, or the URIError it throws on an
\* escape that is malformed or is not UTF-8
decodeURIComponent(s) == decodeFrom(s, 1, << >>)

\* a second pass attempted on every text
StillEncodedAlways(s) == TRUE

\* firstDecode.includes('%')
StillEncoded(s) == includes(s, <<"%">>)

\* one decodeURIComponent call: the text it was given and what came of it
DecodePass(s) ==
  Bind(decodeURIComponent(s), LAMBDA r : [ of |-> s, ok |-> r.ok, value |-> r.value ])

\* the values of the filter parameter
RawFilters ==
  { << >>,
    <<"s","t","a","t","u","s"," ","="," ","'","A","C","T","I","V","E","'">>,
    <<"s","t","a","t","u","s","%","2","0","%","3","D","%","2","0","%","2","7","A","C","T","I","V","E","%","2","7">>,
    <<"s","t","a","t","u","s","%","2","5","2","0","%","2","5","3","D","%","2","5","2","0","%","2","5","2","7","A","C","T","I","V","E","%","2","5","2","7">>,
    <<"n","a","m","e"," ","L","I","K","E"," ","'","a","%","'">>,
    <<"n","a","m","e","%","2","0","L","I","K","E","%","2","0","%","2","7","a","%","2","5","%","2","7">>,
    <<"n","a","m","e","%","2","0","L","I","K","E","%","2","0","%","2","7","%","2","5","2","5","a","%","2","7">>,
    <<"n","a","m","e"," ","L","I","K","E"," ","'","%","2","5","a","%","2","5","'">>,
    <<"%","2","0">>,
    <<"%","2","5","2","0">>,
    <<"%">>,
    <<"n","a","m","e"," ","="," ","'","c","a","f","%","C","3","%","A","9","'">>,
    <<"n","a","m","e"," ","="," ","'","c","a","f","%","E","9","'">>,
    <<"n","a","m","e"," ","="," ","'","c","a","f","%","C","3","'">>,
    <<"n","a","m","e"," ","="," ","'","a","%","2","'">>,
    <<"n","a","m","e"," ","="," ","'","1","0","0","%","'">>,
    <<"n","a","m","e","%","0","9","=","%","0","9","'","a","'">>,
    <<"s","t","a","t","u","s","%","2","0","=","%","2","0","'","A","C","T","I","V","E","'","%","2","0","A","N","D","%","2","0","b","o","g","u","s","%","2","0","=","%","2","0","1">>,
    <<"s","t","a","t","u","s","%","3","D">>,
    <<"n","a","m","e","%","2","0","I","N","%","2","0","(","'","a","'","%","2","C","'","b","'",")">>,
    <<"r","e","s","p","o","n","s","i","b","l","e",".","n","a","m","e","%","2","0","%","3","D","%","2","0","%","2","7","J","a","n","e","%","2","0","D","o","e","%","2","7">>,
    <<"o","w","n","e","r",".","n","a","m","e","%","2","0","%","3","D","%","2","0","%","2","7","J","a","n","e","%","2","5","2","0","D","o","e","%","2","7">> }

InitDecode ==
  /\ rawFilter \in RawFilters
  /\ filterString = rawFilter
  /\ condTexts = << >>
  /\ seps = << >>
  /\ entity = "account"
  /\ pc = "received"
  /\ tokens = << >>
  /\ idx = 1
  /\ currentLogicalOperator = Undefined
  /\ conditions = << >>
  /\ hasRelationshipFilter = FALSE
  /\ relationshipFields = {}
  /\ result = NoResult
  /\ error = NoError
  /\ query = << >>
  /\ responses = << >>
  /\ executed = FALSE
  /\ throwsAt = 0
  /\ decodePasses = << >>
  /\ other = NoRequest

\* if (queryParams.filter): no filter, nothing to decode, parse or apply
SkipFilter ==
  /\ pc = "received"
  /\ rawFilter = << >>
  /\ pc' = "applied"
  /\ UNCHANGED << condTexts, seps, filterString, entity, tokens, idx,
                  currentLogicalOperator, conditions, hasRelationshipFilter,
                  relationshipFields, result, error, query, responses, executed,
                  throwsAt, rawFilter, decodePasses, other >>

\* const firstDecode = decodeURIComponent(queryParams.filter), with the catch
\* that keeps the original text and the branch that takes firstDecode as it is
FirstDecode ==
  /\ pc = "received"
  /\ rawFilter # << >>
  /\ \E first \in { DecodePass(rawFilter) } :
       /\ decodePasses' = << first >>
       /\ IF ~first.ok
          THEN filterString' = rawFilter /\ pc' = "start"
          ELSE IF StillEncoded(first.value)
          THEN filterString' = rawFilter /\ pc' = "firstDecoded"
          ELSE filterString' = first.value /\ pc' = "start"
  /\ UNCHANGED << condTexts, seps, entity, tokens, idx,
                  currentLogicalOperator, conditions, hasRelationshipFilter,
                  relationshipFields, result, error, query, responses, executed,
                  throwsAt, rawFilter, other >>

\* decodedFilter = decodeURIComponent(firstDecode), with the catch that takes
\* firstDecode
SecondDecode ==
  /\ pc = "firstDecoded"
  /\ \E second \in { DecodePass(decodePasses[1].value) } :
       /\ decodePasses' = Append(decodePasses, second)
       /\ filterString' = IF second.ok THEN second.value ELSE decodePasses[1].value
  /\ pc' = "start"
  /\ UNCHANGED << condTexts, seps, entity, tokens, idx,
                  currentLogicalOperator, conditions, hasRelationshipFilter,
                  relationshipFields, result, error, query, responses, executed,
                  throwsAt, rawFilter, other >>

NextDecode ==
  \/ SkipFilter
  \/ FirstDecode
  \/ SecondDecode
  \/ ReturnEmpty
  \/ Tokenize
  \/ LogicalOperatorToken
  \/ ConditionToken
  \/ ReturnParsed
  \/ ApplyFilters
  \/ HandleFilterError
  \/ ExecuteQuery

SpecDecode == InitDecode /\ [][NextDecode]_vars

DecodeEnded == pc \notin { "received", "firstDecoded" } /\ rawFilter # << >>

\* C28: the controller makes at most two decodeURIComponent calls on the filter
\* parameter, the second only on a first result that still contains '%'; the
\* text it parses is the second result, or the first result if the second call
\* fails or is not made, or the original text if the first call fails; and a
\* failed call leaves no error and no response behind: the one response of the
\* request is the one parsing and applying that text leads to.
C28_AtMostTwoDecodePasses ==
  DecodeEnded =>
    /\ Len(decodePasses) \in 1..2
    /\ decodePasses[1].of = rawFilter
    /\ \A k \in 1..Len(decodePasses) :
         \A r \in { decodeURIComponent(decodePasses[k].of) } :
           decodePasses[k].ok = r.ok /\ decodePasses[k].value = r.value
    /\ Len(decodePasses) = 2 <=>
         (decodePasses[1].ok /\ "%" \in Range(decodePasses[1].value))
    /\ Len(decodePasses) = 2 => decodePasses[2].of = decodePasses[1].value
    /\ filterString =
         IF ~decodePasses[1].ok THEN rawFilter
         ELSE IF Len(decodePasses) = 2 /\ decodePasses[2].ok THEN decodePasses[2].value
         ELSE decodePasses[1].value
    /\ pc = "start" => error = NoError /\ responses = << >>
    /\ pc = "responded" =>
         /\ Len(responses) = 1
         /\ \A alone \in { handleFilter(filterString, entity) } :
              IF alone.error = NoError
              THEN responses[1].message \in { NoError, DatabaseError }
              ELSE responses[1] = FilterErrorResponse(alone.error)

\* a second call failed on a first result that still contained '%', and the
\* request was answered from the first result
C28_Witness ==
  /\ pc = "responded"
  /\ Len(decodePasses) = 2
  /\ ~decodePasses[2].ok
  /\ filterString = decodePasses[1].value
  /\ filterString # rawFilter
  /\ responses[1].status = 200

(***************************************************************************)
(* Two requests in flight: each runs parseFilter and applyFiltersToQuery   *)
(* on its own text, entity and builder handle. The first request is the    *)
(* one of the variables above, the second is the record other, which holds *)
(* the same locals. ENTITY_FIELDS, ALLOWED_OPERATORS and LOGICAL_OPERATORS *)
(* are module constants no statement assigns to.                           *)
(***************************************************************************)
ConcurrentTexts ==
  { <<" "," ">>,
    <<"s","t","a","t","u","s"," ","="," ","'","A","C","T","I","V","E","'">>,
    <<"s","t","a","t","u","s"," ","="," ","'","A","C","T","I","V","E","'"," ","O","R"," ","n","a","m","e"," ","I","L","I","K","E"," ","'","a","'">>,
    <<"n","a","m","e"," ","="," ","'","a","'"," ","A","N","D"," ","r","e","s","p","o","n","s","i","b","l","e",".","n","a","m","e"," ","="," ","'","J","a","n","e"," ","D","o","e","'">>,
    <<"n","a","m","e"," ","I","N"," ","(","'","a","'",",","'","b","'",")"," ","O","R"," ","b","o","g","u","s","_","f","i","e","l","d"," ","="," ","'","x","'">>,
    <<"O","R"," ","A","N","D"," ","r","e","s","p","o","n","s","i","b","l","e",".","n","a","m","e"," ","="," ","'","J","a","n","e"," ","D","o","e","'">> }

ConcurrentEntities == { "account", "business" }

\* the locals of a request that has not started
NewRequest(str, e) ==
  [ pc |-> "start", filterString |-> str, entity |-> e, tokens |-> << >>, idx |-> 1,
    currentLogicalOperator |-> Undefined, conditions |-> << >>,
    hasRelationshipFilter |-> FALSE, relationshipFields |-> {},
    result |-> NoResult, error |-> NoError, query |-> << >> ]

InitConcurrent ==
  /\ filterString \in ConcurrentTexts
  /\ entity \in ConcurrentEntities
  /\ \E str \in ConcurrentTexts : \E e \in ConcurrentEntities :
       other = NewRequest(str, e)
  /\ condTexts = << >>
  /\ seps = << >>
  /\ pc = "start"
  /\ tokens = << >>
  /\ idx = 1
  /\ currentLogicalOperator = Undefined
  /\ conditions = << >>
  /\ hasRelationshipFilter = FALSE
  /\ relationshipFields = {}
  /\ result = NoResult
  /\ error = NoError
  /\ query = << >>
  /\ responses = << >>
  /\ executed = FALSE
  /\ throwsAt = 0
  /\ rawFilter = filterString
  /\ decodePasses = << >>

\* the first request stands still
FirstRequestUnchanged ==
  UNCHANGED << condTexts, seps, filterString, entity, pc, tokens, idx,
               currentLogicalOperator, conditions, hasRelationshipFilter,
               relationshipFields, result, error, query, responses, executed,
               throwsAt, rawFilter, decodePasses >>

\* the second request: if (!filterString || filterString.trim() === '') return ...
OtherReturnEmpty ==
  /\ other.pc = "start"
  /\ trim(other.filterString) = << >>
  /\ other' = [ other EXCEPT !.result = ParsedFilter(<< >>, FALSE, {}),
                             !.pc = "parsed" ]
  /\ FirstRequestUnchanged

\* the second request: const tokens = parseConditions(filterString)
OtherTokenize ==
  /\ other.pc = "start"
  /\ trim(other.filterString) # << >>
  /\ other' = [ other EXCEPT !.tokens = parseConditions(other.filterString),
                             !.idx = 1, !.pc = "loop" ]
  /\ FirstRequestUnchanged

\* the second request: the loop body for a token that is a logical operator
OtherLogicalOperatorToken ==
  /\ other.pc = "loop"
  /\ other.idx <= Len(other.tokens)
  /\ IsLogicalOperator(other.tokens[other.idx])
  /\ other' = [ other EXCEPT !.currentLogicalOperator = other.tokens[other.idx],
                             !.idx = other.idx + 1 ]
  /\ FirstRequestUnchanged

\* a loop body of the second request that keeps the logical operator in the
\* variable of the first request
OtherConditionTokenSharedOperator ==
  /\ other.pc = "loop"
  /\ other.idx <= Len(other.tokens)
  /\ ~IsLogicalOperator(other.tokens[other.idx])
  /\ \E r \in { parseCondition(other.tokens[other.idx], other.entity,
                               currentLogicalOperator) } :
       IF r.ok
       THEN /\ other' = [ other EXCEPT
                 !.conditions = Append(other.conditions, r.condition),
                 !.hasRelationshipFilter =
                    (other.hasRelationshipFilter \/ includes(r.condition.field, <<".">>)),
                 !.relationshipFields =
                    IF includes(r.condition.field, <<".">>)
                    THEN other.relationshipFields
                           \cup { relationshipName(r.condition.field) }
                    ELSE other.relationshipFields,
                 !.idx = other.idx + 1 ]
            /\ currentLogicalOperator' = Undefined
       ELSE /\ other' = [ other EXCEPT !.error = r.error, !.pc = "failed" ]
            /\ UNCHANGED currentLogicalOperator
  /\ UNCHANGED << condTexts, seps, filterString, entity, pc, tokens, idx,
                  conditions, hasRelationshipFilter, relationshipFields, result,
                  error, query, responses, executed, throwsAt, rawFilter,
                  decodePasses >>

\* the second request: the loop body for any other token
OtherConditionToken ==
  /\ other.pc = "loop"
  /\ other.idx <= Len(other.tokens)
  /\ ~IsLogicalOperator(other.tokens[other.idx])
  /\ \E r \in { parseCondition(other.tokens[other.idx], other.entity,
                               other.currentLogicalOperator) } :
       other' =
         IF r.ok
         THEN [ other EXCEPT
                  !.conditions = Append(other.conditions, r.condition),
                  !.hasRelationshipFilter =
                     (other.hasRelationshipFilter \/ includes(r.condition.field, <<".">>)),
                  !.relationshipFields =
                     IF includes(r.condition.field, <<".">>)
                     THEN other.relationshipFields
                            \cup { relationshipName(r.condition.field) }
                     ELSE other.relationshipFields,
                  !.currentLogicalOperator = Undefined,
                  !.idx = other.idx + 1 ]
         ELSE [ other EXCEPT !.error = r.error, !.pc = "failed" ]
  /\ FirstRequestUnchanged

\* the second request: return { conditions, hasRelationshipFilter, relationshipFields }
OtherReturnParsed ==
  /\ other.pc = "loop"
  /\ other.idx > Len(other.tokens)
  /\ other' = [ other EXCEPT
                  !.result = ParsedFilter(other.conditions, other.hasRelationshipFilter,
                                          other.relationshipFields),
                  !.pc = "parsed" ]
  /\ FirstRequestUnchanged

\* the second request: query = applyFiltersToQuery(query, parsedFilter, entity)
OtherApplyFilters ==
  /\ other.pc = "parsed"
  /\ \E r \in { applyFiltersToQuery(other.query, other.result, other.entity) } :
       other' = IF r.ok
                THEN [ other EXCEPT !.query = r.q, !.pc = "applied" ]
                ELSE [ other EXCEPT !.error = r.error, !.pc = "applyFailed" ]
  /\ FirstRequestUnchanged

NextConcurrent ==
  \/ ReturnEmpty
  \/ Tokenize
  \/ LogicalOperatorToken
  \/ ConditionToken
  \/ ReturnParsed
  \/ ApplyFilters
  \/ OtherReturnEmpty
  \/ OtherTokenize
  \/ OtherLogicalOperatorToken
  \/ OtherConditionToken
  \/ OtherReturnParsed
  \/ OtherApplyFilters

SpecConcurrent == InitConcurrent /\ [][NextConcurrent]_vars

\* what a request with the locals r has obtained is what parseFilter and
\* applyFiltersToQuery give for its text and entity when it runs alone
AsWhenAlone(r) ==
  \A alone \in { parseFilter(r.filterString, r.entity) } :
    /\ r.pc = "failed" => r.error = alone.error /\ alone.error # NoError
    /\ r.pc \in { "parsed", "applied", "applyFailed" } =>
         r.result = alone.parsed /\ alone.error = NoError
    /\ r.pc \in { "applied", "applyFailed" } =>
         \A applied \in { applyFiltersToQuery(<< >>, alone.parsed, r.entity) } :
           /\ (r.pc = "applied") = applied.ok
           /\ r.error = applied.error
           /\ r.query = applied.q

FirstRequest ==
  [ pc |-> pc, filterString |-> filterString, entity |-> entity, result |-> result,
    error |-> error, query |-> query ]

\* C21: whatever the interleaving of the steps of two requests, each request
\* obtains the ParsedFilter or error and the builder call sequence that
\* parseFilter and applyFiltersToQuery give for its own text, entity and handle
\* when it runs alone.
C21_RequestsDoNotInterfere ==
  AsWhenAlone(FirstRequest) /\ AsWhenAlone(other)

\* the second request has gone from start to its builder calls while the first
\* was inside its loop, between a logical operator and the condition after it
C21_Witness ==
  /\ pc = "loop"
  /\ Len(conditions) = 1
  /\ currentLogicalOperator = <<"O","R">>
  /\ other.pc = "applied"
  /\ Len(other.result.conditions) = 2
  /\ other.query # << >>
  /\ other.filterString # filterString

====
